---------------------------- MODULE Spec2Model ----------------------------
(***************************************************************************)
(* A model of the language-to-action pipeline of rt-2-demo:                *)
(*   src/Pybulllet/Simullation.py  ActionTokenizerV2, ActionExecutor,       *)
(*                                 CLIPMatcher, main                        *)
(*   src/Pybulllet/p.py            SemanticMatcher                          *)
(*                                                                         *)
(* Lengths are integers in centimetres (0.1 m = 10), yaw is an integer in  *)
(* units of pi/20 rad, so that every bin centre and every point halfway    *)
(* between two bin centres is a model value.                               *)
(***************************************************************************)
EXTENDS Integers, Sequences, FiniteSets, TLC

(***************************************************************************)
(* Bounds of the model.                                                    *)
(***************************************************************************)
\* how far outside an axis range the discretizer inputs go (model units)
TokMargin == 12
\* how many float32 steps above 2^24 m the huge discretizer inputs go
HugeSpan == 2
\* executor target coordinates range over -ExMax..ExMax besides the scene's
ExMax == 1
\* similarity scores are the levels 0..MaxScore
MaxScore == 2

Abs(n) == IF n < 0 THEN 0 - n ELSE n

(***************************************************************************)
(* ActionTokenizerV2                                                       *)
(***************************************************************************)
\* torch.linspace(lo, hi, 11): the number of representative points
NumBins == 11

\* half_size = env_size_meters / 2.0 with env_size_meters = 3.0, in cm
HalfSize == 150

\* env_height_meters = 1.0, in cm
EnvHeight == 100

\* math.pi / 2 in units of pi/20 rad
HalfPi == 10

AxisNames == {"x", "y", "z", "yaw"}

\* the range [lo, hi] the constructor gives each axis
AxisLo(axis) ==
    CASE axis = "x" -> 0 - HalfSize
      [] axis = "y" -> 0 - HalfSize
      [] axis = "z" -> 0
      [] axis = "yaw" -> 0 - HalfPi

AxisHi(axis) ==
    CASE axis = "x" -> HalfSize
      [] axis = "y" -> HalfSize
      [] axis = "z" -> EnvHeight
      [] axis = "yaw" -> HalfPi

\* torch.linspace(lo, hi, 11): bins[i] for i in 1..11 (Python index i-1)
Linspace(lo, hi) == [i \in 1..NumBins |-> lo + ((i - 1) * (hi - lo)) \div (NumBins - 1)]

Bins(axis) == Linspace(AxisLo(axis), AxisHi(axis))

\* 2^21 m, 2^22 m, 2^23 m and 2^24 m in cm: the magnitudes from which a
\* float32 (24 significant bits) is spaced 0.25 m, 0.5 m, 1 m and 2 m apart
Pow21M == 2097152 * 100
Pow22M == 4194304 * 100
Pow23M == 8388608 * 100
Pow24M == 16777216 * 100

\* the spacing, in cm, of the float32 values around a magnitude of a cm.
\* Below 2^21 m the spacing is finer than the values the model draws, and
\* the model takes the arithmetic to be exact.
F32Quantum(a) ==
    IF a >= Pow24M THEN 200
    ELSE IF a >= Pow23M THEN 100
    ELSE IF a >= Pow22M THEN 50
    ELSE IF a >= Pow21M THEN 25
    ELSE 1

\* round-to-nearest, ties to the even significand, as IEEE-754 does
F32Round(n) ==
    LET a == Abs(n)
        q == F32Quantum(a)
        m == a \div q
        r == a - m * q
        up == IF 2 * r > q THEN TRUE
              ELSE IF 2 * r < q THEN FALSE
              ELSE m % 2 = 1
        v == IF up THEN (m + 1) * q ELSE m * q
    IN  IF n < 0 THEN 0 - v ELSE v

\* yaw is not a length: its inputs stay small and its arithmetic is exact
F32(axis, n) == IF axis = "yaw" THEN n ELSE F32Round(n)

\* torch.abs(bins - value) in float32, value = torch.tensor(float(value))
Distance(axis, bins, value) ==
    [i \in 1..NumBins |-> Abs(F32(axis, bins[i] - F32(axis, value)))]

\* a plausible slip: argmax in place of argmin, the farthest point
ArgMaxFirst(d) ==
    CHOOSE i \in DOMAIN d :
        /\ \A j \in DOMAIN d : d[i] >= d[j]
        /\ \A j \in DOMAIN d : j < i => d[j] < d[i]

\* torch.argmin: the index of the first minimal value (1-based here)
ArgMin(d) ==
    CHOOSE i \in DOMAIN d :
        /\ \A j \in DOMAIN d : d[i] <= d[j]
        /\ \A j \in DOMAIN d : j < i => d[j] > d[i]

\* a plausible slip: recentred by the bin count instead of its half
TokenValOffByOne(axis, value) ==
    (ArgMin(Distance(axis, Bins(axis), value)) - 1) - 6

\* idx = torch.argmin(...).item(); token_val = idx - 5
TokenVal(axis, value) ==
    (ArgMin(Distance(axis, Bins(axis), value)) - 1) - 5

\* a plausible slip: "d" in place of "+d" drops the sign of bins >= 0
FormatSignedNoPlus(n) == ToString(n)

\* f"{token_val:+d}": an explicit sign, then the decimal digits
FormatSigned(n) == IF n >= 0 THEN "+" \o ToString(n) ELSE "-" \o ToString(0 - n)

Prefix(axis) ==
    CASE axis = "x" -> "POS_X"
      [] axis = "y" -> "POS_Y"
      [] axis = "z" -> "POS_Z"
      [] axis = "yaw" -> "ROT_YAW"

\* discretize(value, bins, prefix): f"{prefix}_{token_val:+d}"
Discretize(axis, value) == Prefix(axis) \o "_" \o FormatSigned(TokenVal(axis, value))

\* position_to_tokens(pos, rotation)
PositionToTokens(pos, rotation) ==
    << Discretize("x", pos[1]), Discretize("y", pos[2]),
       Discretize("z", pos[3]), Discretize("yaw", rotation) >>

\* the labels callers pass as action_type, and str.upper() on them
TypeLabels == {"PICK", "PLACE", "pick", "Push", "stack_2"}

Upper(s) ==
    CASE s = "PICK" -> "PICK"
      [] s = "PLACE" -> "PLACE"
      [] s = "pick" -> "PICK"
      [] s = "Push" -> "PUSH"
      [] s = "stack_2" -> "STACK_2"

\* a plausible slip: the position tokens before the action token
ActionToTokensPosFirst(action_type, pos, rotation) ==
    PositionToTokens(pos, rotation) \o << "ACTION_" \o Upper(action_type) >>

\* action_to_tokens(action_type, pos, rotation)
ActionToTokens(action_type, pos, rotation) ==
    << "ACTION_" \o Upper(action_type) >> \o PositionToTokens(pos, rotation)

(***************************************************************************)
(* ActionExecutor                                                          *)
(***************************************************************************)
\* pos[2] + 0.1: the clearance of the approach position, in cm
Clearance == 10

\* self.home_pos = (0, 0, 0.7), in cm
home_pos == << 0, 0, 70 >>

\* a home rotation that is not neutral
home_rot_yawed == << 0, 0, 3 >>

\* self.home_rot = (0, 0, 0)
home_rot == << 0, 0, 0 >>

\* (terminate, *pos, *rot, gripper)
Vec(terminate, pos, rot, gripper) ==
    << terminate, pos[1], pos[2], pos[3], rot[1], rot[2], rot[3], gripper >>

PosAbove(pos) == << pos[1], pos[2], pos[3] + Clearance >>

\* a plausible slip: the lift always terminates
GeneratePickActionsAlwaysFinal(pos, is_final) ==
    << Vec(0, PosAbove(pos), home_rot, 1),
       Vec(0, pos, home_rot, 1),
       Vec(0, pos, home_rot, 0),
       Vec(1, PosAbove(pos), home_rot, 0) >>

\* a plausible slip: the gripper closes before the descent
GeneratePickActionsEarlyClose(pos, is_final) ==
    << Vec(0, PosAbove(pos), home_rot, 1),
       Vec(0, pos, home_rot, 0),
       Vec(0, pos, home_rot, 0),
       Vec(IF is_final THEN 1 ELSE 0, PosAbove(pos), home_rot, 0) >>

\* generate_pick_actions(pos, is_final): the returned list
GeneratePickActions(pos, is_final) ==
    LET terminate_flag == IF is_final THEN 1 ELSE 0
    IN  << Vec(0, PosAbove(pos), home_rot, 1),
           Vec(0, pos, home_rot, 1),
           Vec(0, pos, home_rot, 0),
           Vec(terminate_flag, PosAbove(pos), home_rot, 0) >>

\* a plausible slip: the terminate flag on the lift as well as on the return
GeneratePlaceActionsLiftFlag(pos, is_final) ==
    LET terminate_flag == IF is_final THEN 1 ELSE 0
    IN  << Vec(0, PosAbove(pos), home_rot, 0),
           Vec(0, pos, home_rot, 0),
           Vec(0, pos, home_rot, 1),
           Vec(terminate_flag, PosAbove(pos), home_rot, 1),
           Vec(terminate_flag, home_pos, home_rot, 1) >>

\* a plausible slip: the last vector returns above the target, not home
GeneratePlaceActionsNoHome(pos, is_final) ==
    LET terminate_flag == IF is_final THEN 1 ELSE 0
    IN  << Vec(0, PosAbove(pos), home_rot, 0),
           Vec(0, pos, home_rot, 0),
           Vec(0, pos, home_rot, 1),
           Vec(0, PosAbove(pos), home_rot, 1),
           Vec(terminate_flag, PosAbove(pos), home_rot, 1) >>

\* generate_place_actions(pos, is_final): the returned list
GeneratePlaceActions(pos, is_final) ==
    LET terminate_flag == IF is_final THEN 1 ELSE 0
    IN  << Vec(0, PosAbove(pos), home_rot, 0),
           Vec(0, pos, home_rot, 0),
           Vec(0, pos, home_rot, 1),
           Vec(0, PosAbove(pos), home_rot, 1),
           Vec(terminate_flag, home_pos, home_rot, 1) >>

(***************************************************************************)
(* Text: commands are sequences of characters; str methods and re.search  *)
(***************************************************************************)
(***************************************************************************)
(* Text.  A text is a sequence of one-character strings.                   *)
(***************************************************************************)
LowerLetters ==
    {"a", "b", "c", "d", "e", "f", "g", "h", "i", "j", "k", "l", "m",
     "n", "o", "p", "q", "r", "s", "t", "u", "v", "w", "x", "y", "z"}

UpperLetters == {"B", "P", "R"}

Digits == {"0", "1", "2", "3", "4", "5", "6", "7", "8", "9"}

\* \w, \s and . of Python's re on the characters the commands are made of
WordChars == LowerLetters \cup UpperLetters \cup Digits \cup {"_"}
SpaceChars == {" "}
AnyChars == WordChars \cup SpaceChars \cup {",", "."}

\* str.lower()
LowerChar(c) ==
    CASE c = "B" -> "b"
      [] c = "P" -> "p"
      [] c = "R" -> "r"
      [] OTHER -> c

Lower(s) == [i \in 1..Len(s) |-> LowerChar(s[i])]

\* a strip() that removes nothing
StripNone(s) == s

\* str.strip(): leading and trailing whitespace removed
Strip(s) ==
    LET keep == {i \in 1..Len(s) : s[i] \notin SpaceChars}
    IN  IF keep = {} THEN << >>
        ELSE LET a == CHOOSE i \in keep : \A j \in keep : i <= j
                 b == CHOOSE i \in keep : \A j \in keep : i >= j
             IN  SubSeq(s, a, b)

\* whether w occurs in s at cursor i
OccursAt(s, i, w) ==
    /\ i + Len(w) - 1 <= Len(s)
    /\ \A k \in 1..Len(w) : s[i + k - 1] = w[k]

\* "w in s" of Python strings
Contains(s, w) == \E i \in 1..(Len(s) + 1) : OccursAt(s, i, w)

\* an optional text: None, or a str
NoText == [some |-> FALSE, t |-> << >>]
SomeText(t) == [some |-> TRUE, t |-> t]

(***************************************************************************)
(* Python's re, as a backtracking matcher.  M(node, s, i, g) is the        *)
(* sequence of the ways node matches s from cursor i, in the order the     *)
(* backtracking engine tries them; each way is its end cursor and the      *)
(* span of group 1.  re.search takes the first way at the leftmost cursor  *)
(* that has one.                                                           *)
(***************************************************************************)
RLit(w) == [k |-> "lit", w |-> w]
RCat(xs) == [k |-> "cat", xs |-> xs]
RAlt(xs) == [k |-> "alt", xs |-> xs]
RGroup(x) == [k |-> "grp", x |-> x]
ROpt(x) == [k |-> "opt", x |-> x]
\* c+ and c* (greedy), c+? and c*? (lazy), c a character class
RPlus(cs) == [k |-> "rep", cs |-> cs, min |-> 1, lazy |-> FALSE]
RStar(cs) == [k |-> "rep", cs |-> cs, min |-> 0, lazy |-> FALSE]
RPlusLazy(cs) == [k |-> "rep", cs |-> cs, min |-> 1, lazy |-> TRUE]
RStarLazy(cs) == [k |-> "rep", cs |-> cs, min |-> 0, lazy |-> TRUE]
REnd == [k |-> "eos"]

Way(e, g) == [e |-> e, g |-> g]

\* how many characters of the class cs follow cursor i
RunLen(s, i, cs) ==
    CHOOSE r \in 0..(Len(s) + 1 - i) :
        /\ \A k \in 0..(r - 1) : s[i + k] \in cs
        /\ (i + r <= Len(s)) => s[i + r] \notin cs

\* a repetition of a class whose run from cursor i is r long: the longest
\* run first when greedy, the shortest first when lazy
MRepRun(node, i, g, r) ==
    IF r < node.min THEN << >>
    ELSE [j \in 1..(r - node.min + 1) |->
             Way(IF node.lazy THEN i + node.min + (j - 1) ELSE i + r - (j - 1), g)]

\* a capturing group: each way of its body, with the span it matched
MGroup(ws, i) == [n \in 1..Len(ws) |-> Way(ws[n].e, << i, ws[n].e >>)]

RECURSIVE M(_, _, _, _), MCat(_, _, _, _, _), MCatWays(_, _, _, _, _, _),
          MCatAll(_, _, _, _), MAlt(_, _, _, _, _)

M(node, s, i, g) ==
    CASE node.k = "lit" ->
            IF OccursAt(s, i, node.w) THEN << Way(i + Len(node.w), g) >> ELSE << >>
      [] node.k = "eos" ->
            IF i = Len(s) + 1 THEN << Way(i, g) >> ELSE << >>
      [] node.k = "rep" -> MRepRun(node, i, g, RunLen(s, i, node.cs))
      [] node.k = "cat" -> MCat(node.xs, 1, s, i, g)
      [] node.k = "alt" -> MAlt(node.xs, 1, s, i, g)
      [] node.k = "grp" -> MGroup(M(node.x, s, i, g), i)
      [] node.k = "opt" -> M(node.x, s, i, g) \o << Way(i, g) >>

\* xs[k], xs[k+1], ... one after the other
MCat(xs, k, s, i, g) ==
    IF k > Len(xs) THEN << Way(i, g) >>
    ELSE MCatAll(xs, k, s, M(xs[k], s, i, g))

MCatAll(xs, k, s, ws) == MCatWays(xs, k, s, ws, 1, Len(ws))

\* the rest of the concatenation after each of the ways ws[lo..hi], in order
MCatWays(xs, k, s, ws, lo, hi) ==
    IF lo > hi THEN << >>
    ELSE IF lo = hi THEN MCat(xs, k + 1, s, ws[lo].e, ws[lo].g)
    ELSE MCatWays(xs, k, s, ws, lo, (lo + hi) \div 2)
             \o MCatWays(xs, k, s, ws, (lo + hi) \div 2 + 1, hi)

\* xs[k] | xs[k+1] | ...: the alternatives in their order
MAlt(xs, k, s, i, g) ==
    IF k > Len(xs) THEN << >>
    ELSE M(xs[k], s, i, g) \o MAlt(xs, k + 1, s, i, g)

\* the first way at the leftmost cursor that has one: group 1 of it
FirstMatch(s, ways) ==
    IF \A i \in DOMAIN ways : Len(ways[i]) = 0 THEN NoText
    ELSE LET i == CHOOSE a \in DOMAIN ways :
                      /\ Len(ways[a]) > 0
                      /\ \A b \in DOMAIN ways : Len(ways[b]) > 0 => a <= b
         IN  SomeText(SubSeq(s, ways[i][1].g[1], ways[i][1].g[2] - 1))

\* re.search(pattern, s).group(1), or None
Search(node, s) ==
    FirstMatch(s, [i \in 1..(Len(s) + 1) |-> M(node, s, i, << 0, 0 >>)])

RS == SpaceChars
RW == WordChars
RDot == AnyChars

\* r"(?:pick\s+up|pick|grab|take|lift|get)\s+(?:the\s+)?(\w+)"
ClipPickPattern1 ==
    RCat(<< RAlt(<< RCat(<< RLit(<< "p", "i", "c", "k" >>), RPlus(RS), RLit(<< "u", "p" >>) >>),
                 RLit(<< "p", "i", "c", "k" >>),
                 RLit(<< "g", "r", "a", "b" >>),
                 RLit(<< "t", "a", "k", "e" >>),
                 RLit(<< "l", "i", "f", "t" >>),
                 RLit(<< "g", "e", "t" >>) >>),
            RPlus(RS),
            ROpt(RCat(<< RLit(<< "t", "h", "e" >>), RPlus(RS) >>)),
            RGroup(RPlus(RW)) >>)

\* r"(?:pick\s+up|pick|grab|take|lift|get)\s+(?:the\s+)?(\w+\s+\w+)"
ClipPickPattern2 ==
    RCat(<< RAlt(<< RCat(<< RLit(<< "p", "i", "c", "k" >>), RPlus(RS), RLit(<< "u", "p" >>) >>),
                 RLit(<< "p", "i", "c", "k" >>),
                 RLit(<< "g", "r", "a", "b" >>),
                 RLit(<< "t", "a", "k", "e" >>),
                 RLit(<< "l", "i", "f", "t" >>),
                 RLit(<< "g", "e", "t" >>) >>),
            RPlus(RS),
            ROpt(RCat(<< RLit(<< "t", "h", "e" >>), RPlus(RS) >>)),
            RGroup(RCat(<< RPlus(RW), RPlus(RS), RPlus(RW) >>)) >>)

\* r"(?:place|put|set|drop|move).*?(?:on|onto|to|at|over)\s+(?:the\s+)?(\w+)"
ClipPlacePattern1 ==
    RCat(<< RAlt(<< RLit(<< "p", "l", "a", "c", "e" >>),
                 RLit(<< "p", "u", "t" >>),
                 RLit(<< "s", "e", "t" >>),
                 RLit(<< "d", "r", "o", "p" >>),
                 RLit(<< "m", "o", "v", "e" >>) >>),
            RStarLazy(RDot),
            RAlt(<< RLit(<< "o", "n" >>),
                 RLit(<< "o", "n", "t", "o" >>),
                 RLit(<< "t", "o" >>),
                 RLit(<< "a", "t" >>),
                 RLit(<< "o", "v", "e", "r" >>) >>),
            RPlus(RS),
            ROpt(RCat(<< RLit(<< "t", "h", "e" >>), RPlus(RS) >>)),
            RGroup(RPlus(RW)) >>)

\* r"(?:on|onto|to|at|over)\s+(?:the\s+)?(\w+\s+\w+)"
ClipPlacePattern2 ==
    RCat(<< RAlt(<< RLit(<< "o", "n" >>),
                 RLit(<< "o", "n", "t", "o" >>),
                 RLit(<< "t", "o" >>),
                 RLit(<< "a", "t" >>),
                 RLit(<< "o", "v", "e", "r" >>) >>),
            RPlus(RS),
            ROpt(RCat(<< RLit(<< "t", "h", "e" >>), RPlus(RS) >>)),
            RGroup(RCat(<< RPlus(RW), RPlus(RS), RPlus(RW) >>)) >>)

\* r"(?:on|onto|to|at|over)\s+(?:the\s+)?(\w+)"
ClipPlacePattern3 ==
    RCat(<< RAlt(<< RLit(<< "o", "n" >>),
                 RLit(<< "o", "n", "t", "o" >>),
                 RLit(<< "t", "o" >>),
                 RLit(<< "a", "t" >>),
                 RLit(<< "o", "v", "e", "r" >>) >>),
            RPlus(RS),
            ROpt(RCat(<< RLit(<< "t", "h", "e" >>), RPlus(RS) >>)),
            RGroup(RPlus(RW)) >>)

\* r"(?:pick|grab|take|lift|pick up)\s+(?:the\s+)?(.+?)(?:\s+(?:and|then|,)|$)"
DecidePickPattern ==
    RCat(<< RAlt(<< RLit(<< "p", "i", "c", "k" >>),
                 RLit(<< "g", "r", "a", "b" >>),
                 RLit(<< "t", "a", "k", "e" >>),
                 RLit(<< "l", "i", "f", "t" >>),
                 RLit(<< "p", "i", "c", "k", " ", "u", "p" >>) >>),
            RPlus(RS),
            ROpt(RCat(<< RLit(<< "t", "h", "e" >>), RPlus(RS) >>)),
            RGroup(RPlusLazy(RDot)),
            RAlt(<< RCat(<< RPlus(RS), RAlt(<< RLit(<< "a", "n", "d" >>), RLit(<< "t", "h", "e", "n" >>), RLit(<< "," >>) >>) >>), REnd >>) >>)

\* r"(?:place|put|set|drop|stack)\s+(?:it\s+)?(?:on|onto|in|into|at|over)?\s*(?:the\s+)?(.+?)(?:\s+(?:and|then|,)|$)"
DecidePlacePattern ==
    RCat(<< RAlt(<< RLit(<< "p", "l", "a", "c", "e" >>),
                 RLit(<< "p", "u", "t" >>),
                 RLit(<< "s", "e", "t" >>),
                 RLit(<< "d", "r", "o", "p" >>),
                 RLit(<< "s", "t", "a", "c", "k" >>) >>),
            RPlus(RS),
            ROpt(RCat(<< RLit(<< "i", "t" >>), RPlus(RS) >>)),
            ROpt(RAlt(<< RLit(<< "o", "n" >>),
                      RLit(<< "o", "n", "t", "o" >>),
                      RLit(<< "i", "n" >>),
                      RLit(<< "i", "n", "t", "o" >>),
                      RLit(<< "a", "t" >>),
                      RLit(<< "o", "v", "e", "r" >>) >>)),
            RStar(RS),
            ROpt(RCat(<< RLit(<< "t", "h", "e" >>), RPlus(RS) >>)),
            RGroup(RPlusLazy(RDot)),
            RAlt(<< RCat(<< RPlus(RS), RAlt(<< RLit(<< "a", "n", "d" >>), RLit(<< "t", "h", "e", "n" >>), RLit(<< "," >>) >>) >>), REnd >>) >>)

\* the commands typed at the prompt or sent to decide
Commands ==
    << \* 'pick up the red cube and place it on the ground'
       << "p", "i", "c", "k", " ", "u", "p", " ", "t", "h", "e", " ", "r", "e", "d", " ", "c", "u", "b", "e", " ", "a", "n", "d", " ", "p", "l", "a", "c", "e", " ", "i", "t", " ", "o", "n", " ", "t", "h", "e", " ", "g", "r", "o", "u", "n", "d" >>,
       \* 'put the blue block on the green cube'
       << "p", "u", "t", " ", "t", "h", "e", " ", "b", "l", "u", "e", " ", "b", "l", "o", "c", "k", " ", "o", "n", " ", "t", "h", "e", " ", "g", "r", "e", "e", "n", " ", "c", "u", "b", "e" >>,
       \* 'grab the red cube and place it on the table'
       << "g", "r", "a", "b", " ", "t", "h", "e", " ", "r", "e", "d", " ", "c", "u", "b", "e", " ", "a", "n", "d", " ", "p", "l", "a", "c", "e", " ", "i", "t", " ", "o", "n", " ", "t", "h", "e", " ", "t", "a", "b", "l", "e" >>,
       \* 'put it on the red cube'
       << "p", "u", "t", " ", "i", "t", " ", "o", "n", " ", "t", "h", "e", " ", "r", "e", "d", " ", "c", "u", "b", "e" >>,
       \* 'pick red and put on red'
       << "p", "i", "c", "k", " ", "r", "e", "d", " ", "a", "n", "d", " ", "p", "u", "t", " ", "o", "n", " ", "r", "e", "d" >>,
       \* 'pick up the red cube'
       << "p", "i", "c", "k", " ", "u", "p", " ", "t", "h", "e", " ", "r", "e", "d", " ", "c", "u", "b", "e" >>,
       \* 'take the green block and drop it onto the blue block'
       << "t", "a", "k", "e", " ", "t", "h", "e", " ", "g", "r", "e", "e", "n", " ", "b", "l", "o", "c", "k", " ", "a", "n", "d", " ", "d", "r", "o", "p", " ", "i", "t", " ", "o", "n", "t", "o", " ", "t", "h", "e", " ", "b", "l", "u", "e", " ", "b", "l", "o", "c", "k" >>,
       \* 'grab that green cube'
       << "g", "r", "a", "b", " ", "t", "h", "a", "t", " ", "g", "r", "e", "e", "n", " ", "c", "u", "b", "e" >>,
       \* '  Pick up the Blue cube, then put it on the Red cube '
       << " ", " ", "P", "i", "c", "k", " ", "u", "p", " ", "t", "h", "e", " ", "B", "l", "u", "e", " ", "c", "u", "b", "e", ",", " ", "t", "h", "e", "n", " ", "p", "u", "t", " ", "i", "t", " ", "o", "n", " ", "t", "h", "e", " ", "R", "e", "d", " ", "c", "u", "b", "e", " " >>,
       \* 'hello robot'
       << "h", "e", "l", "l", "o", " ", "r", "o", "b", "o", "t" >>,
       \* ''
       << >>,
       \* '   '
       << " ", " ", " " >> >>

(***************************************************************************)
(* The scene and the encoder.                                              *)
(***************************************************************************)
\* None of an Optional[int]; body ids are never negative
NoUid == 0 - 1

\* a debug key that was not written
NoScore == 0 - 1

\* cube_specs / cube_colors: the names, in creation order; the plane and the
\* robot are loaded first, so the cubes get body ids 2, 3 and 4
Scene ==
    << [uid |-> 2, name |-> << "r", "e", "d" >>],
       [uid |-> 3, name |-> << "g", "r", "e", "e", "n" >>],
       [uid |-> 4, name |-> << "b", "l", "u", "e" >>] >>

\* the list of the values of f, each computed once
List(f) == f \o << >>

\* the elements of seq at the indices S, in their order
Select(seq, S) ==
    [k \in 1..Cardinality(S) |->
        seq[CHOOSE i \in S : Cardinality({j \in S : j < i}) = k - 1]]

\* the visible objects of one perception cycle: any of the cubes, in the
\* order of the dict they are filtered from
VisibleSets == {Select(Scene, S) : S \in SUBSET (1..Len(Scene))}

\* decide(command, objects) also accepts object maps that hold one name under
\* two uids; the entries keep the iteration order of the dict
TwinScenes ==
    {<< [uid |-> 2, name |-> << "r", "e", "d" >>], [uid |-> 3, name |-> << "r", "e", "d" >>] >>,
     << [uid |-> 2, name |-> << "r", "e", "d" >>], [uid |-> 3, name |-> << "g", "r", "e", "e", "n" >>],
        [uid |-> 4, name |-> << "r", "e", "d" >>] >>}

\* the (descriptor, uid) pairs of the visible objects: every descriptor of
\* the first object, then every descriptor of the second, ...; texts[o] is
\* the descriptor list of object o
Flatten(lists) ==
    LET RECURSIVE upto(_)
        upto(k) == IF k = 0 THEN << >> ELSE upto(k - 1) \o lists[k]
    IN  upto(Len(lists))

Candidates(objects, texts) ==
    Flatten([o \in 1..Len(objects) |->
                [d \in 1..Len(texts[o]) |-> [uid |-> objects[o].uid, text |-> texts[o][d]]]])

\* The encoder is external: the similarity of a query text to the candidate
\* texts is any assignment that gives equal texts equal scores and, the
\* embeddings being normalised, a text the maximum against itself.  The
\* model draws the assignments with at most two candidate texts above the
\* level 0, at levels 1..MaxScore: hot is << >>, << <<c, s>> >> or
\* << <<c1, s1>>, <<c2, s2>> >>.
HotCells(n) ==
    LET levels == 1..MaxScore
    IN  {<< >>}
            \cup {<< << c, s >> >> : c \in 1..n, s \in levels}
            \cup UNION {{<< << c1, s1 >>, << c2, s2 >> >> :
                            c2 \in (c1 + 1)..n, s1 \in levels, s2 \in levels} : c1 \in 1..n}

TextScore(cands, query, hot, text) ==
    IF text = query THEN MaxScore
    ELSE IF Len(hot) >= 1 /\ cands[hot[1][1]].text = text THEN hot[1][2]
    ELSE IF Len(hot) >= 2 /\ cands[hot[2][1]].text = text THEN hot[2][2]
    ELSE 0

\* util.cos_sim(embedding, candidate_embs)[0] for the embedding of query
ScoreVector(cands, query, hot) ==
    List([c \in 1..Len(cands) |-> TextScore(cands, query, hot, cands[c].text)])

\* an argmax that returns the index of the last maximal value
TorchArgMaxLast(d) ==
    CHOOSE i \in DOMAIN d :
        /\ \A j \in DOMAIN d : d[i] >= d[j]
        /\ \A j \in DOMAIN d : j > i => d[j] < d[i]

\* torch.argmax: the index of the first maximal value
TorchArgMax(d) ==
    CHOOSE i \in DOMAIN d :
        /\ \A j \in DOMAIN d : d[i] >= d[j]
        /\ \A j \in DOMAIN d : j < i => d[j] < d[i]

\* sorted(pairs, key=lambda item: item[1], reverse=True): stable, so equal
\* scores keep their order
SortedDesc(pairs) ==
    LET n == Len(pairs)
        before(i) == {j \in 1..n : \/ pairs[j][2] > pairs[i][2]
                                   \/ pairs[j][2] = pairs[i][2] /\ j < i}
        rank == List([i \in 1..n |-> Cardinality(before(i)) + 1])
    IN  List([k \in 1..n |-> pairs[CHOOSE i \in 1..n : rank[i] = k]])

SetMax(S) == CHOOSE x \in S : \A y \in S : x >= y

(***************************************************************************)
(* SemanticMatcher.decide (p.py)                                           *)
(***************************************************************************)
\* the descriptors of one object
DecideDescriptors(name) ==
    << name \o << " ", "c", "u", "b", "e" >>,
       name \o << " ", "b", "l", "o", "c", "k" >>,
       name \o << " ", "o", "b", "j", "e", "c", "t" >>,
       name \o << " ", "c", "o", "l", "o", "r", "e", "d", " ", "c", "u", "b", "e" >> >>

\* best_uid_for(embedding): the uid of the best candidate and its score
DecideBestUidFor(cands, scores) ==
    LET best_index == TorchArgMax(scores)
    IN  << cands[best_index].uid, scores[best_index] >>

\* a pooling that takes each object's first descriptor only
UidScoresFirst(objects, cands, scores) ==
    List([o \in 1..Len(objects) |->
            << objects[o].uid,
               scores[CHOOSE c \in 1..Len(cands) :
                          /\ cands[c].uid = objects[o].uid
                          /\ \A x \in 1..(c - 1) : cands[x].uid # objects[o].uid] >>])

\* uid_scores: per uid, the maximum over its candidates, in first-seen order
UidScores(objects, cands, scores) ==
    List([o \in 1..Len(objects) |->
            << objects[o].uid,
               SetMax({scores[c] : c \in {x \in 1..Len(cands) : cands[x].uid = objects[o].uid}}) >>])

\* a plausible slip: the collision check left out
DecideResolveNoCollision(objects, cands, pick_uid, place_uid, scores_full) ==
    LET fallback == pick_uid = NoUid \/ place_uid = NoUid
        sorted_uids == SortedDesc(UidScores(objects, cands, scores_full))
        pick1 == IF fallback /\ pick_uid = NoUid /\ Len(sorted_uids) > 0
                 THEN sorted_uids[1][1] ELSE pick_uid
        place1 == IF fallback /\ place_uid = NoUid /\ Len(sorted_uids) > 1
                  THEN sorted_uids[2][1] ELSE place_uid
    IN  [pick_uid |-> pick1, place_uid |-> place1,
         fallback_scores |-> IF fallback THEN sorted_uids ELSE << >>,
         resolved_same_object |-> NoScore]

\* a resolution without the full-command fallback
DecideResolveNoFallback(objects, cands, pick_uid, place_uid, scores_full) ==
    [pick_uid |-> pick_uid, place_uid |-> place_uid,
     fallback_scores |-> << >>, resolved_same_object |-> NoScore]

\* a collision branch that takes the first other object in dict order
DecideResolveNextInOrder(objects, cands, pick_uid, place_uid, scores_full) ==
    LET r == DecideResolveNoCollision(objects, cands, pick_uid, place_uid, scores_full)
        others == {o \in 1..Len(objects) : objects[o].uid # r.pick_uid}
        first == CHOOSE o \in others : \A j \in others : o <= j
    IN  IF r.pick_uid # NoUid /\ r.pick_uid = r.place_uid /\ others # {}
        THEN [r EXCEPT !.place_uid = objects[first].uid, !.resolved_same_object = 0]
        ELSE r

\* lines 192-216: the fallback ranking, then the collision resolution
DecideResolve(objects, cands, pick_uid, place_uid, scores_full) ==
    LET fallback == pick_uid = NoUid \/ place_uid = NoUid
        sorted_uids == SortedDesc(UidScores(objects, cands, scores_full))
        pick1 == IF fallback /\ pick_uid = NoUid /\ Len(sorted_uids) > 0
                 THEN sorted_uids[1][1] ELSE pick_uid
        place1 == IF fallback /\ place_uid = NoUid /\ Len(sorted_uids) > 1
                  THEN sorted_uids[2][1] ELSE place_uid
        collide == pick1 # NoUid /\ place1 # NoUid /\ pick1 = place1 /\ Len(objects) > 1
        by_score == SortedDesc([c \in 1..Len(cands) |-> << cands[c].uid, scores_full[c] >>])
        others == {k \in 1..Len(by_score) : by_score[k][1] # pick1}
        first == CHOOSE k \in others : \A j \in others : k <= j
    IN  [pick_uid |-> pick1,
         place_uid |-> IF collide /\ others # {} THEN by_score[first][1] ELSE place1,
         fallback_scores |-> IF fallback THEN sorted_uids ELSE << >>,
         resolved_same_object |-> IF collide /\ others # {} THEN by_score[first][2] ELSE NoScore]

(***************************************************************************)
(* CLIPMatcher.pick_and_place_from_text (Simullation.py)                   *)
(***************************************************************************)
\* the "GROUND" place target: a string, so it differs from every body id
GROUND == 0 - 2

ground_keywords == << << "g", "r", "o", "u", "n", "d" >>, << "t", "a", "b", "l", "e" >>, << "f", "l", "o", "o", "r" >>, << "d", "o", "w", "n" >>, << "s", "u", "r", "f", "a", "c", "e" >> >>

AnyKeywordIn(s) == \E k \in 1..Len(ground_keywords) : Contains(s, ground_keywords[k])

pick_patterns == << ClipPickPattern1, ClipPickPattern2 >>

place_patterns == << ClipPlacePattern1, ClipPlacePattern2, ClipPlacePattern3 >>

\* for pattern in patterns: the stripped group of the first pattern that
\* matches, None when none does
FirstPatternPhrase(patterns, txt) ==
    LET found == [k \in 1..Len(patterns) |-> Search(patterns[k], txt)]
        hits == {k \in 1..Len(patterns) : found[k].some}
    IN  IF hits = {} THEN NoText
        ELSE SomeText(Strip(found[CHOOSE k \in hits : \A j \in hits : k <= j].t))

\* lines 187-219: txt, the ground flag and the two phrases
ClipExtract(text) ==
    LET txt == Lower(text)
        pick_phrase == FirstPatternPhrase(pick_patterns, txt)
        place_phrase == FirstPatternPhrase(place_patterns, txt)
    IN  [txt |-> txt,
         pick_phrase |-> pick_phrase,
         place_phrase |-> place_phrase,
         place_on_ground |-> \/ AnyKeywordIn(txt)
                             \/ place_phrase.some /\ AnyKeywordIn(place_phrase.t)]

\* the descriptors of one object
ClipDescriptors(name) ==
    << name,
       name \o << " ", "c", "u", "b", "e" >>,
       name \o << " ", "b", "l", "o", "c", "k" >>,
       << "t", "h", "e", " " >> \o name,
       << "t", "h", "e", " " >> \o name \o << " ", "c", "u", "b", "e" >> >>

phrase_variations(phrase) ==
    << phrase,
       << "t", "h", "e", " " >> \o phrase,
       phrase \o << " ", "c", "u", "b", "e" >>,
       phrase \o << " ", "b", "l", "o", "c", "k" >> >>

\* all_sims[v][c]: the similarity of variation v to candidate c.  Normalised
\* features make the similarity of a text to itself the maximum; the other
\* pairs of texts get the levels of hot, whose cells are numbered row by row
\* (cell q is variation (q - 1) \div n + 1, candidate (q - 1) % n + 1).
PairScore(variations, cands, hot, v, c) ==
    LET n == Len(cands)
        names(k) == /\ Len(hot) >= k
                    /\ ((hot[k][1] - 1) \div n) + 1 = v
                    /\ cands[((hot[k][1] - 1) % n) + 1].text = cands[c].text
    IN  IF variations[v] = cands[c].text THEN MaxScore
        ELSE IF names(1) THEN hot[1][2]
        ELSE IF names(2) THEN hot[2][2]
        ELSE 0

\* a pooling that keeps the first variation only
MaxSimsFirstVariation(variations, cands, hot) ==
    List([c \in 1..Len(cands) |-> PairScore(variations, cands, hot, 1, c)])

\* torch.stack(all_sims).max(dim=0)[0]
MaxSims(variations, cands, hot) ==
    List([c \in 1..Len(cands) |->
            SetMax({PairScore(variations, cands, hot, v, c) : v \in 1..Len(variations)})])

\* `if exclude_uid and uid == exclude_uid`: None and 0 exclude nothing
Excluded(uid, exclude_uid) == exclude_uid # NoUid /\ exclude_uid # 0 /\ uid = exclude_uid

\* best_uid_for(phrase, exclude_uid): the first object, in dict order, that
\* has the maximal pooled score, and that score; (None, 0.0) with no object
ClipBestUidFor(objects, cands, phrase, exclude_uid, hot) ==
    LET max_sims == MaxSims(phrase_variations(phrase), cands, hot)
        kept == {o \in 1..Len(objects) : ~Excluded(objects[o].uid, exclude_uid)}
        uid_scores == UidScores(objects, cands, max_sims)
        best == CHOOSE o \in kept : /\ \A j \in kept : uid_scores[o][2] >= uid_scores[j][2]
                                    /\ \A j \in kept : j < o => uid_scores[j][2] < uid_scores[o][2]
    IN  IF kept = {} THEN << NoUid, 0 >> ELSE uid_scores[best]

\* the score families of one best_uid_for call: the levels above 0 lie in
\* one row of all_sims
ClipHots(cands) ==
    LET n == Len(cands)
    IN  UNION {{[k \in 1..Len(hot) |-> << (v - 1) * n + hot[k][1], hot[k][2] >>] :
                    hot \in HotCells(n)} : v \in 1..Len(phrase_variations(<< >>))}

\* what best_uid_for can return, over the scores the encoder can give
ClipResults(objects, cands, phrase, exclude_uid) ==
    {ClipBestUidFor(objects, cands, phrase, exclude_uid, hot) : hot \in ClipHots(cands)}

\* lines 296-301: the first object whose name occurs in txt
DirectColorMatch(objects, txt) ==
    LET hits == {o \in 1..Len(objects) : Contains(txt, objects[o].name)}
    IN  IF hits = {} THEN NoUid
        ELSE objects[CHOOSE o \in hits : \A j \in hits : o <= j].uid

(***************************************************************************)
(* State                                                                   *)
(***************************************************************************)
VARIABLES
    tk,             \* the tokenizer call under way: its arguments and result
    ex,             \* the executor call under way: its arguments and result
    gripper_open,   \* ActionExecutor.gripper_open
    dc,             \* the SemanticMatcher.decide call under way (p.py)
    mc,             \* the pick_and_place_from_text call under way
    ml,             \* main(): its position in the loop and its locals
    hc,             \* the RT2Simulation.handle_command call under way (p.py)
    pf,             \* a call of one matcher stage on its own: arguments and result
    rt,             \* the RT2Simulation object and the physics engine behind it
    cl,             \* cli_loop: its position in the loop and its locals
    srv             \* server.py: the global sim, the instances, the request threads

compVars == << tk, ex, gripper_open >>

matchVars == << dc, mc, ml, hc >>

sysVars == << pf, rt, cl, srv >>

vars == << tk, ex, gripper_open, dc, mc, ml, hc, pf, rt, cl, srv >>

NoPos == << 0, 0, 0 >>

TkIdle == [op |-> "none", axis |-> "x", value |-> 0, type |-> "PICK",
           pos |-> NoPos, rotation |-> 0, done |-> FALSE, token_val |-> 0,
           out |-> << >>]

ExIdle == [op |-> "none", pos |-> NoPos, is_final |-> FALSE, done |-> FALSE,
           out |-> << >>]

\* decide's frame: arguments, locals, the debug dict and the returned decision
DcFrame(pc, command, objects) ==
    [pc |-> pc, command |-> command, objects |-> objects,
     txt |-> << >>, pick_phrase |-> NoText, place_phrase |-> NoText,
     cands |-> << >>, include_pick |-> FALSE, include_place |-> FALSE, encode_calls |-> 0,
     pick_uid |-> NoUid, place_uid |-> NoUid,
     pick_score |-> NoScore, place_score |-> NoScore,
     fallback_scores |-> << >>, resolved_same_object |-> NoScore,
     error |-> ""]

DcIdle == DcFrame("idle", << >>, << >>)

\* pick_and_place_from_text's frame: arguments, locals and debug_scores
McFrame(pc, text, objects_meta) ==
    [pc |-> pc, text |-> text, objects_meta |-> objects_meta,
     txt |-> << >>, pick_phrase |-> NoText, place_phrase |-> NoText,
     cands |-> << >>, place_on_ground |-> FALSE, encode_calls |-> 0,
     pick_uid |-> NoUid, place_uid |-> NoUid,
     pick_score |-> NoScore, place_score |-> NoScore,
     direct_color_match |-> NoText, fallback_pick_score |-> NoScore]

McIdle == McFrame("idle", << >>, << >>)

\* main's locals; each is assigned before it is read in an iteration, so
\* the top of the loop starts from the blank frame
MlFrame(pc) ==
    [pc |-> pc, objects_meta |-> << >>, user |-> << >>,
     pick_uid |-> NoUid, place_uid |-> NoUid,
     pick_pos |-> NoPos, drop_pos |-> NoPos,
     pick_tokens |-> << >>, place_tokens |-> << >>,
     pick_actions |-> << >>, place_actions |-> << >>]

MlIdle == MlFrame("idle")

\* handle_command's frame: the arguments with their defaults, visible, the
\* returned CommandResult (pick_uid, place_uid, drop_position, << >> is None;
\* frame_png, FALSE is None), whether reset_scene ran, and the controller
\* calls it made
HcFrame(pc, command) ==
    [pc |-> pc, command |-> command, capture_frame |-> TRUE, auto_reset |-> FALSE,
     visible |-> << >>,
     pick_uid |-> NoUid, place_uid |-> NoUid, drop_position |-> << >>,
     frame_png |-> FALSE, scene_reset |-> FALSE,
     target_uid |-> NoUid, warning |-> "", motions |-> << >>]

HcIdle == HcFrame("idle", << >>)

\* a matcher stage called on its own: best_uid_for of pick_and_place_from_text
\* (objects, phrase, exclude_uid, the similarities hot) or the resolution
\* stage of decide (objects, the pick and place of the phrases, the
\* full-command similarities hot), and what it returned
PfIdle == [op |-> "none", done |-> FALSE, objects |-> << >>, phrase |-> << >>,
           exclude_uid |-> NoUid, pick_uid |-> NoUid, place_uid |-> NoUid,
           hot |-> << >>, out |-> << >>]

\* no call of the RT2Simulation API has been made yet
NoCall == [method |-> "none", outcome |-> "none", physics |-> FALSE, matcher |-> FALSE]

\* RT2Simulation after __init__: physics_client, robot_id (NoUid is None),
\* controller (FALSE is None); the engine's connection and its live
\* constraints; the last API call: how it ended and what it touched
RtNone == [physics_client |-> NoUid, robot_id |-> NoUid, controller |-> FALSE,
           connected |-> FALSE, constraints |-> {}, lifecycle |-> "none",
           last |-> NoCall]

\* RT2Simulation after a start() that returned
RtStarted == [RtNone EXCEPT !.physics_client = 0, !.robot_id = 1, !.controller = TRUE,
                            !.connected = TRUE, !.lifecycle = "started"]

\* cli_loop's frame: the argument auto_reset, raw, and what the iteration
\* printed
ClFrame(pc) == [pc |-> pc, auto_reset |-> FALSE, raw |-> << >>, printed |-> ""]

ClIdle == ClFrame("idle")

\* the request threads the server runs side by side
NumThreads == 2

\* a request thread: the endpoint it serves, its local `simulation` (an index
\* into the instances, 0 before ensure_simulation returned), the HTTP status
ThIdle == [pc |-> "idle", endpoint |-> "none", simulation |-> 0, status |-> 0]

\* server.py after import: the global sim (0 is None), the RT2Simulation
\* objects constructed so far, the threads, whether the process has exited
SrvIdle == [sim |-> 0, instances |-> << >>,
            threads |-> [t \in 1..NumThreads |-> ThIdle], stopped |-> FALSE]
(***************************************************************************)
(* The tokenizer on its own: one call per behaviour, its arguments drawn   *)
(* by the initial state.  discretize gets every axis with inputs inside    *)
(* the range, up to TokMargin outside it, and lengths of 2^24 m and more,  *)
(* where float32 values are 2 m apart.                                     *)
(***************************************************************************)
HugeInputs(axis) ==
    IF axis = "yaw" THEN {}
    ELSE LET hs == {Pow24M + 200 * k : k \in 0..HugeSpan}
         IN  hs \cup {0 - h : h \in hs}

DiscInputs(axis) ==
    ((AxisLo(axis) - TokMargin)..(AxisHi(axis) + TokMargin)) \cup HugeInputs(axis)

InRange(axis) == AxisLo(axis)..AxisHi(axis)

\* positions and yaws handed to action_to_tokens
TokXs == {0 - 160, 0 - 45, 0, 15, 55, 160}
TokYs == {0 - 15, 0, 15}
TokZs == {3, 9, 106}
TokYaws == {0 - 11, 0 - 1, 0, 10}

DiscretizeRequests ==
    {[TkIdle EXCEPT !.op = "discretize", !.axis = r[1], !.value = r[2]] :
        r \in UNION {{<< axis, value >> : value \in DiscInputs(axis)} : axis \in AxisNames}}

ActionToTokensRequests ==
    {[TkIdle EXCEPT !.op = "action_to_tokens", !.type = type,
                    !.pos = << x, y, z >>, !.rotation = rot] :
        type \in TypeLabels, x \in TokXs, y \in TokYs, z \in TokZs, rot \in TokYaws}

InitTokenizer ==
    /\ tk \in DiscretizeRequests \cup ActionToTokensRequests
    /\ ex = ExIdle
    /\ gripper_open = 1
    /\ dc = DcIdle
    /\ mc = McIdle
    /\ ml = MlIdle
    /\ hc = HcIdle
    /\ pf = PfIdle
    /\ rt = RtNone
    /\ cl = ClIdle
    /\ srv = SrvIdle

DiscretizeCall ==
    /\ tk.op = "discretize"
    /\ ~tk.done
    /\ tk' = [tk EXCEPT !.done = TRUE,
                        !.token_val = TokenVal(tk.axis, tk.value),
                        !.out = << Discretize(tk.axis, tk.value) >>]
    /\ UNCHANGED << ex, gripper_open, matchVars, sysVars >>

ActionToTokensCall ==
    /\ tk.op = "action_to_tokens"
    /\ ~tk.done
    /\ tk' = [tk EXCEPT !.done = TRUE,
                        !.out = ActionToTokens(tk.type, tk.pos, tk.rotation)]
    /\ UNCHANGED << ex, gripper_open, matchVars, sysVars >>

NextTokenizer == DiscretizeCall \/ ActionToTokensCall

SpecTokenizer == InitTokenizer /\ [][NextTokenizer]_vars

\* the text of every signed integer a token may carry
SignedTexts == {"-5", "-4", "-3", "-2", "-1", "+0", "+1", "+2", "+3", "+4", "+5"}

\* C7: for every axis and each of the 11 evenly spaced bin centres c_i
\* (i = 0..10), discretize(c_i) yields the signed integer i - 5 exactly.
C7_BinCentres ==
    (tk.op = "discretize" /\ tk.done) =>
        \A i \in 0..10 :
            tk.value = AxisLo(tk.axis) + (i * (AxisHi(tk.axis) - AxisLo(tk.axis))) \div 10
                => tk.token_val = i - 5

C7_Witness ==
    /\ tk.op = "discretize" /\ tk.done
    /\ tk.axis = "yaw" /\ tk.value = 8 /\ tk.token_val = 4

\* C8: discretize is monotonic non-decreasing over the configured range:
\* for every axis and in-range values v1 <= v2 (halfway points included)
\* the integer produced for v1 is <= the integer produced for v2.
C8_Monotonic ==
    (tk.op = "discretize" /\ tk.done /\ tk.value \in InRange(tk.axis)) =>
        \A w \in InRange(tk.axis) :
            /\ w <= tk.value => TokenVal(tk.axis, w) <= tk.token_val
            /\ w >= tk.value => TokenVal(tk.axis, w) >= tk.token_val

\* an in-range input exactly halfway between two bin centres
C8_Witness ==
    /\ tk.op = "discretize" /\ tk.done
    /\ tk.axis = "x" /\ tk.value = 45
    /\ tk.token_val \in {1, 2}

\* C9: for every axis and every input, discretize returns a token whose
\* integer lies in [-5, 5]; an input below lo yields -5 and an input above
\* hi yields +5 (clamping to the nearest edge bin).
C9_Clamp ==
    (tk.op = "discretize" /\ tk.done) =>
        /\ tk.token_val \in (0 - 5)..5
        /\ tk.value < AxisLo(tk.axis) => tk.token_val = 0 - 5
        /\ tk.value > AxisHi(tk.axis) => tk.token_val = 5

\* C10: action_to_tokens returns exactly 5 tokens in the order ACTION_<TYPE>,
\* POS_X_*, POS_Y_*, POS_Z_*, ROT_YAW_* for any type label, each position or
\* yaw token being its prefix and an explicitly signed integer (+0 at the
\* centre bin).
C10_TokenSequence ==
    (tk.op = "action_to_tokens" /\ tk.done) =>
        /\ Len(tk.out) = 5
        /\ tk.out[1] = "ACTION_" \o Upper(tk.type)
        /\ tk.out[2] \in {"POS_X_" \o t : t \in SignedTexts}
        /\ tk.out[3] \in {"POS_Y_" \o t : t \in SignedTexts}
        /\ tk.out[4] \in {"POS_Z_" \o t : t \in SignedTexts}
        /\ tk.out[5] \in {"ROT_YAW_" \o t : t \in SignedTexts}
        /\ tk.pos[1] = 0 => tk.out[2] = "POS_X_+0"
        /\ tk.rotation = 0 => tk.out[5] = "ROT_YAW_+0"

\* a label outside PICK and PLACE, the centre bin on two axes
C10_Witness ==
    /\ tk.op = "action_to_tokens" /\ tk.done
    /\ tk.type = "Push"
    /\ tk.pos = << 0, 0, 3 >>
    /\ tk.out = << "ACTION_PUSH", "POS_X_+0", "POS_Y_+0", "POS_Z_-5", "ROT_YAW_+0" >>

(***************************************************************************)
(* The executor on its own: one call per behaviour, any target, either     *)
(* flag, the gripper as an earlier call may have left it.                  *)
(***************************************************************************)
ExCoords == ((0 - ExMax)..ExMax) \cup {3, 55}

ExTargets == {<< x, y, z >> : x \in ExCoords, y \in ExCoords, z \in ExCoords}

InitExecutor ==
    /\ tk = TkIdle
    /\ ex \in {[ExIdle EXCEPT !.op = op, !.pos = pos, !.is_final = f] :
                  op \in {"pick", "place"}, pos \in ExTargets, f \in BOOLEAN}
    /\ gripper_open \in {0, 1}
    /\ dc = DcIdle
    /\ mc = McIdle
    /\ ml = MlIdle
    /\ hc = HcIdle
    /\ pf = PfIdle
    /\ rt = RtNone
    /\ cl = ClIdle
    /\ srv = SrvIdle

GeneratePickCall ==
    /\ ex.op = "pick"
    /\ ~ex.done
    /\ gripper_open' = 0
    /\ ex' = [ex EXCEPT !.done = TRUE, !.out = GeneratePickActions(ex.pos, ex.is_final)]
    /\ UNCHANGED << tk, matchVars, sysVars >>

GeneratePlaceCall ==
    /\ ex.op = "place"
    /\ ~ex.done
    /\ gripper_open' = 1
    /\ ex' = [ex EXCEPT !.done = TRUE, !.out = GeneratePlaceActions(ex.pos, ex.is_final)]
    /\ UNCHANGED << tk, matchVars, sysVars >>

NextExecutor == GeneratePickCall \/ GeneratePlaceCall

SpecExecutor == InitExecutor /\ [][NextExecutor]_vars

Terminate(v) == v[1]
VecPos(v) == << v[2], v[3], v[4] >>
Gripper(v) == v[8]

\* C4: generate_pick_actions returns exactly 4 vectors: above pos by the
\* 0.1 clearance with gripper 1; at pos with gripper 1; at pos with
\* gripper 0; back above with gripper 0; terminate is 0 on the first three
\* and 1 on the fourth if and only if is_final.
C4_PickSequence ==
    (ex.op = "pick" /\ ex.done) =>
        LET a == ex.out
            above == << ex.pos[1], ex.pos[2], ex.pos[3] + 10 >>
        IN  /\ Len(a) = 4
            /\ VecPos(a[1]) = above  /\ Gripper(a[1]) = 1 /\ Terminate(a[1]) = 0
            /\ VecPos(a[2]) = ex.pos /\ Gripper(a[2]) = 1 /\ Terminate(a[2]) = 0
            /\ VecPos(a[3]) = ex.pos /\ Gripper(a[3]) = 0 /\ Terminate(a[3]) = 0
            /\ VecPos(a[4]) = above  /\ Gripper(a[4]) = 0
            /\ Terminate(a[4]) = (IF ex.is_final THEN 1 ELSE 0)

C4_Witness ==
    /\ ex.op = "pick" /\ ex.done /\ ex.is_final
    /\ ex.pos = << 55, 0, 3 >>
    /\ Terminate(ex.out[4]) = 1

\* C5: generate_place_actions returns exactly 5 vectors; terminate is 0 on
\* vectors 0..3 for both values of is_final, and vector[4].terminate is 1
\* if and only if is_final.
C5_PlaceTerminate ==
    (ex.op = "place" /\ ex.done) =>
        /\ Len(ex.out) = 5
        /\ \A i \in 1..4 : Terminate(ex.out[i]) = 0
        /\ Terminate(ex.out[5]) = (IF ex.is_final THEN 1 ELSE 0)

C5_Witness ==
    /\ ex.op = "place" /\ ex.done /\ ex.is_final
    /\ Terminate(ex.out[5]) = 1

\* C6: the 5 vectors of generate_place_actions are, in order: above pos by
\* the clearance with the gripper closed; at pos, closed; at pos, open;
\* back at the approach height, open; at the home pose (0, 0, 0.7), open,
\* whatever pos is.
C6_PlaceSteps ==
    (ex.op = "place" /\ ex.done) =>
        LET a == ex.out
            above == << ex.pos[1], ex.pos[2], ex.pos[3] + 10 >>
        IN  /\ Len(a) = 5
            /\ VecPos(a[1]) = above  /\ Gripper(a[1]) = 0
            /\ VecPos(a[2]) = ex.pos /\ Gripper(a[2]) = 0
            /\ VecPos(a[3]) = ex.pos /\ Gripper(a[3]) = 1
            /\ VecPos(a[4]) = above  /\ Gripper(a[4]) = 1
            /\ VecPos(a[5]) = << 0, 0, 70 >> /\ Gripper(a[5]) = 1

\* a target away from the home pose
C6_Witness ==
    /\ ex.op = "place" /\ ex.done
    /\ ex.pos = << 55, 3, 3 >>
    /\ VecPos(ex.out[5]) = << 0, 0, 70 >>

(***************************************************************************)
(* decide on its own: one call per behaviour, the command and the visible  *)
(* objects drawn by the initial state.  Each similarity vector is drawn    *)
(* where the code computes it.                                             *)
(***************************************************************************)
InputTexts == {Commands[k] : k \in 1..Len(Commands)}

InitDecide ==
    /\ tk = TkIdle
    /\ ex = ExIdle
    /\ gripper_open = 1
    /\ dc \in {DcFrame("call", c, o) : c \in InputTexts, o \in VisibleSets \cup TwinScenes}
    /\ mc = McIdle
    /\ ml = MlIdle
    /\ hc = HcIdle
    /\ pf = PfIdle
    /\ rt = RtNone
    /\ cl = ClIdle
    /\ srv = SrvIdle

\* lines 116-117
DecideNoObjects ==
    /\ dc.pc = "call"
    /\ Len(dc.objects) = 0
    /\ dc' = [dc EXCEPT !.pc = "done", !.error = "no visible objects"]
    /\ UNCHANGED << compVars, mc, ml, hc, sysVars >>

\* lines 119-121
DecideEmptyCommand ==
    /\ dc.pc = "call"
    /\ Len(dc.objects) > 0
    /\ Len(Strip(dc.command)) = 0
    /\ dc' = [dc EXCEPT !.pc = "done", !.error = "empty command"]
    /\ UNCHANGED << compVars, mc, ml, hc, sysVars >>

\* pick_match.group(1).strip() if pick_match else None
DecidePhrase(pattern, txt) ==
    LET found == Search(pattern, txt)
    IN  IF found.some THEN SomeText(Strip(found.t)) ELSE NoText

\* line 158: model.encode raises; decide has no handler
DecideEncodeRaises ==
    /\ dc.pc = "call"
    /\ Len(dc.objects) > 0
    /\ Len(Strip(dc.command)) > 0
    /\ dc' = [dc EXCEPT !.pc = "raised", !.encode_calls = dc.encode_calls + 1]
    /\ UNCHANGED << compVars, mc, ml, hc, sysVars >>

\* lines 123-175: the phrases, the candidates and the one encode call
DecideEncode ==
    /\ dc.pc = "call"
    /\ Len(dc.objects) > 0
    /\ Len(Strip(dc.command)) > 0
    /\ LET txt == Lower(Strip(dc.command))
           pick_phrase == DecidePhrase(DecidePickPattern, txt)
           place_phrase == DecidePhrase(DecidePlacePattern, txt)
       IN  dc' = [dc EXCEPT !.pc = "pick",
                            !.txt = txt,
                            !.cands = Candidates(dc.objects,
                                [o \in 1..Len(dc.objects) |->
                                    DecideDescriptors(dc.objects[o].name)]),
                            !.pick_phrase = pick_phrase,
                            !.place_phrase = place_phrase,
                            !.include_pick = pick_phrase.some /\ Len(pick_phrase.t) > 0,
                            !.include_place = /\ place_phrase.some
                                              /\ Len(place_phrase.t) > 0
                                              /\ place_phrase # pick_phrase,
                            !.encode_calls = dc.encode_calls + 1]
    /\ UNCHANGED << compVars, mc, ml, hc, sysVars >>

\* the similarity vectors the encoder can give a query
DecideScores(query) ==
    {ScoreVector(dc.cands, query, hot) : hot \in HotCells(Len(dc.cands))}

\* lines 185-187
DecidePick ==
    /\ dc.pc = "pick"
    /\ IF dc.include_pick
       THEN \E best \in {DecideBestUidFor(dc.cands, scores) :
                              scores \in DecideScores(dc.pick_phrase.t)} :
                dc' = [dc EXCEPT !.pc = "place",
                                 !.pick_uid = best[1], !.pick_score = best[2]]
       ELSE dc' = [dc EXCEPT !.pc = "place"]
    /\ UNCHANGED << compVars, mc, ml, hc, sysVars >>

\* lines 188-190
DecidePlace ==
    /\ dc.pc = "place"
    /\ IF dc.include_place
       THEN \E best \in {DecideBestUidFor(dc.cands, scores) :
                              scores \in DecideScores(dc.place_phrase.t)} :
                dc' = [dc EXCEPT !.pc = "resolve",
                                 !.place_uid = best[1], !.place_score = best[2]]
       ELSE dc' = [dc EXCEPT !.pc = "resolve"]
    /\ UNCHANGED << compVars, mc, ml, hc, sysVars >>

\* lines 192-219: scores_full is the same vector in both blocks
DecideReturn ==
    /\ dc.pc = "resolve"
    /\ \E r \in {DecideResolve(dc.objects, dc.cands, dc.pick_uid, dc.place_uid,
                                scores_full) : scores_full \in DecideScores(dc.txt)} :
               dc' = [dc EXCEPT !.pc = "done",
                                !.pick_uid = r.pick_uid,
                                !.place_uid = r.place_uid,
                                !.fallback_scores = r.fallback_scores,
                                !.resolved_same_object = r.resolved_same_object]
    /\ UNCHANGED << compVars, mc, ml, hc, sysVars >>

NextDecide ==
    \/ DecideNoObjects
    \/ DecideEmptyCommand
    \/ DecideEncode
    \/ DecideEncodeRaises
    \/ DecidePick
    \/ DecidePlace
    \/ DecideReturn

SpecDecide == InitDecide /\ [][NextDecide]_vars

\* C1: with two or more visible objects, a decision of decide that names both
\* a pick and a place names two different objects, whatever the command and
\* the similarity scores.
C1_DecideDistinct ==
    (/\ dc.pc = "done"
     /\ Len(dc.objects) >= 2
     /\ dc.pick_uid # NoUid
     /\ dc.place_uid # NoUid) => dc.pick_uid # dc.place_uid

\* the collision resolution acted: both roles had fallen on one object and
\* the place went to another
C1_Witness ==
    /\ dc.pc = "done"
    /\ Len(dc.objects) >= 2
    /\ dc.resolved_same_object # NoScore
    /\ dc.pick_uid # NoUid
    /\ dc.place_uid # NoUid
    /\ dc.pick_uid # dc.place_uid

(***************************************************************************)
(* main() of Simullation.py: perceive, read a command, match, generate the *)
(* tokens and the vectors of the pick and of the place, and again.  The    *)
(* matcher runs as a call of its own, one step per block of its body; the  *)
(* pose reads are answered by the simulation with any of Poses.            *)
(***************************************************************************)
\* where a cube can be: the three start places, on the table beside one,
\* and on top of another cube
Poses == {<< 55, 0 - 15, 3 >>, << 55, 15, 3 >>, << 45, 0, 3 >>, << 55, 0, 9 >>}

Yaws == {0, 3}

ExitWords == {<< "e", "x", "i", "t" >>, << "q", "u", "i", "t" >>}

ConsoleInputs == InputTexts \cup {<< " ", "e", "x", "i", "t" >>, << "q", "u", "i", "t", " " >>}

\* the is_final arguments main passes
PickIsFinalSwapped == TRUE

PickIsFinal == FALSE

PlaceIsFinalSwapped == FALSE

PlaceIsFinal == TRUE

Init ==
    /\ tk = TkIdle
    /\ ex = ExIdle
    /\ gripper_open = 1
    /\ dc = DcIdle
    /\ mc = McIdle
    /\ ml = MlFrame("perceive")
    /\ hc = HcIdle
    /\ pf = PfIdle
    /\ rt = RtNone
    /\ cl = ClIdle
    /\ srv = SrvIdle

\* lines 449-465: the visible cubes of this cycle
Perceive ==
    /\ ml.pc \in {"perceive", "completed"}
    /\ \E visible \in VisibleSets :
           ml' = [MlFrame("input") EXCEPT !.objects_meta = visible]
    /\ UNCHANGED << compVars, dc, mc, hc, sysVars >>

\* lines 468-471
InputExit ==
    /\ ml.pc = "input"
    /\ \E line \in ConsoleInputs :
           /\ Lower(Strip(line)) \in ExitWords
           /\ ml' = [ml EXCEPT !.pc = "ended", !.user = Strip(line)]
    /\ UNCHANGED << compVars, dc, mc, hc, sysVars >>

\* lines 472-473
InputEmpty ==
    /\ ml.pc = "input"
    /\ \E line \in ConsoleInputs :
           /\ Len(Strip(line)) = 0
           /\ ml' = [ml EXCEPT !.pc = "perceive", !.user = Strip(line)]
    /\ UNCHANGED << compVars, dc, mc, hc, sysVars >>

\* line 480: the call
InputCommand ==
    /\ ml.pc = "input"
    /\ \E line \in ConsoleInputs :
           /\ Lower(Strip(line)) \notin ExitWords
           /\ Len(Strip(line)) > 0
           /\ ml' = [ml EXCEPT !.pc = "matching", !.user = Strip(line)]
           /\ mc' = McFrame("call", Strip(line), ml.objects_meta)
    /\ UNCHANGED << compVars, dc, hc, sysVars >>

\* best_uid_for calls encode_text once for each phrase variation (line 254)
EncodesPerCall == Len(phrase_variations(<< >>))

\* lines 187-241
ClipParse ==
    /\ mc.pc = "call"
    /\ LET e == ClipExtract(mc.text)
       IN  mc' = [mc EXCEPT !.pc = "pick",
                            !.encode_calls = mc.encode_calls + 1,
                            !.txt = e.txt,
                            !.cands = Candidates(mc.objects_meta,
                                [o \in 1..Len(mc.objects_meta) |->
                                    ClipDescriptors(mc.objects_meta[o].name)]),
                            !.pick_phrase = e.pick_phrase,
                            !.place_phrase = e.place_phrase,
                            !.place_on_ground = e.place_on_ground]
    /\ UNCHANGED << compVars, dc, ml, hc, sysVars >>

\* lines 278-282
ClipPick ==
    /\ mc.pc = "pick"
    /\ IF mc.pick_phrase.some /\ Len(mc.pick_phrase.t) > 0
       THEN \E best \in ClipResults(mc.objects_meta, mc.cands, mc.pick_phrase.t, NoUid) :
                mc' = [mc EXCEPT !.pc = "place",
                                 !.encode_calls = mc.encode_calls + EncodesPerCall,
                                 !.pick_uid = best[1], !.pick_score = best[2]]
       ELSE mc' = [mc EXCEPT !.pc = "place"]
    /\ UNCHANGED << compVars, dc, ml, hc, sysVars >>

\* a plausible slip: the place phrase is resolved before the ground flag is
\* looked at
ClipPlacePhraseFirst ==
    /\ mc.pc = "place"
    /\ IF /\ mc.place_phrase.some
          /\ Len(mc.place_phrase.t) > 0
          /\ mc.place_phrase # mc.pick_phrase
       THEN \E best \in ClipResults(mc.objects_meta, mc.cands, mc.place_phrase.t,
                                     mc.pick_uid) :
                mc' = [mc EXCEPT !.pc = "fallback",
                                 !.encode_calls = mc.encode_calls + EncodesPerCall,
                                 !.place_uid = best[1], !.place_score = best[2]]
       ELSE IF mc.place_on_ground
       THEN mc' = [mc EXCEPT !.pc = "fallback", !.place_uid = GROUND]
       ELSE mc' = [mc EXCEPT !.pc = "fallback"]
    /\ UNCHANGED << compVars, dc, ml, hc, sysVars >>

\* a plausible slip: the place phrase is used even when it is the pick phrase
ClipPlaceSamePhrase ==
    /\ mc.pc = "place"
    /\ IF mc.place_on_ground
       THEN mc' = [mc EXCEPT !.pc = "fallback", !.place_uid = GROUND]
       ELSE IF /\ mc.place_phrase.some
               /\ Len(mc.place_phrase.t) > 0
       THEN \E best \in ClipResults(mc.objects_meta, mc.cands, mc.place_phrase.t,
                                     mc.pick_uid) :
                mc' = [mc EXCEPT !.pc = "fallback",
                                 !.encode_calls = mc.encode_calls + EncodesPerCall,
                                 !.place_uid = best[1], !.place_score = best[2]]
       ELSE mc' = [mc EXCEPT !.pc = "fallback"]
    /\ UNCHANGED << compVars, dc, ml, hc, sysVars >>

\* lines 284-292
ClipPlace ==
    /\ mc.pc = "place"
    /\ IF mc.place_on_ground
       THEN mc' = [mc EXCEPT !.pc = "fallback", !.place_uid = GROUND]
       ELSE IF /\ mc.place_phrase.some
               /\ Len(mc.place_phrase.t) > 0
               /\ mc.place_phrase # mc.pick_phrase
       THEN \E best \in ClipResults(mc.objects_meta, mc.cands, mc.place_phrase.t,
                                     mc.pick_uid) :
                mc' = [mc EXCEPT !.pc = "fallback",
                                 !.encode_calls = mc.encode_calls + EncodesPerCall,
                                 !.place_uid = best[1], !.place_score = best[2]]
       ELSE mc' = [mc EXCEPT !.pc = "fallback"]
    /\ UNCHANGED << compVars, dc, ml, hc, sysVars >>

\* lines 294-307
ClipFallback ==
    /\ mc.pc = "fallback"
    /\ IF mc.pick_uid # NoUid
       THEN mc' = [mc EXCEPT !.pc = "done"]
       ELSE LET direct == DirectColorMatch(mc.objects_meta, mc.txt)
            IN  IF direct # NoUid
                THEN mc' = [mc EXCEPT !.pc = "done", !.pick_uid = direct,
                                      !.direct_color_match = SomeText(
                                          (CHOOSE o \in {mc.objects_meta[k] : k \in 1..Len(mc.objects_meta)} :
                                              o.uid = direct).name)]
                ELSE \E best \in ClipResults(mc.objects_meta, mc.cands, mc.txt, NoUid) :
                         mc' = [mc EXCEPT !.pc = "done", !.pick_uid = best[1],
                                          !.encode_calls = mc.encode_calls + EncodesPerCall,
                                          !.fallback_pick_score = best[2]]
    /\ UNCHANGED << compVars, dc, ml, hc, sysVars >>

\* lines 480-484: the return; without a pick the loop starts over
MatcherReturn ==
    /\ ml.pc = "matching"
    /\ mc.pc = "done"
    /\ ml' = IF mc.pick_uid = NoUid
             THEN [ml EXCEPT !.pc = "perceive"]
             ELSE [ml EXCEPT !.pc = "pick", !.pick_uid = mc.pick_uid,
                             !.place_uid = mc.place_uid]
    /\ mc' = McIdle
    /\ UNCHANGED << compVars, dc, hc, sysVars >>

\* lines 487-505
GeneratePick ==
    /\ ml.pc = "pick"
    /\ \E pick_pos \in Poses, yaw \in Yaws :
           ml' = [ml EXCEPT !.pc = "place",
                            !.pick_pos = pick_pos,
                            !.pick_tokens = ActionToTokens("PICK", pick_pos, yaw),
                            !.pick_actions = GeneratePickActions(pick_pos, PickIsFinal)]
    /\ gripper_open' = 0
    /\ UNCHANGED << tk, ex, dc, mc, hc, sysVars >>

\* lines 508-517
DropPos(place_uid, pick_pos, tgt_pos) ==
    IF place_uid = GROUND THEN << pick_pos[1] - 10, pick_pos[2], 3 >>
    ELSE IF place_uid # NoUid THEN << tgt_pos[1], tgt_pos[2], tgt_pos[3] + 6 >>
    ELSE << 40, 0, 3 >>

\* lines 507-537
GeneratePlace ==
    /\ ml.pc = "place"
    /\ \E tgt_pos \in IF ml.place_uid \in {GROUND, NoUid} THEN {NoPos} ELSE Poses :
           LET drop_pos == DropPos(ml.place_uid, ml.pick_pos, tgt_pos)
           IN  ml' = [ml EXCEPT !.pc = "completed",
                                !.drop_pos = drop_pos,
                                !.place_tokens = ActionToTokens("PLACE", drop_pos, 0),
                                !.place_actions = GeneratePlaceActions(drop_pos, PlaceIsFinal)]
    /\ gripper_open' = 1
    /\ UNCHANGED << tk, ex, dc, mc, hc, sysVars >>

Next ==
    \/ Perceive
    \/ InputExit
    \/ InputEmpty
    \/ InputCommand
    \/ ClipParse
    \/ ClipPick
    \/ ClipPlace
    \/ ClipFallback
    \/ MatcherReturn
    \/ GeneratePick
    \/ GeneratePlace

Spec == Init /\ [][Next]_vars

\* C2: with two or more visible objects, pick_and_place_from_text never
\* returns the same object as pick and as place, whatever the command and the
\* similarity scores, the fallback pick after a resolved place included.
C2_ClipDistinct ==
    (/\ mc.pc = "done"
     /\ Len(mc.objects_meta) >= 2
     /\ mc.pick_uid # NoUid
     /\ mc.place_uid # NoUid) => mc.pick_uid # mc.place_uid

TerminateIndices(actions) == {i \in 1..Len(actions) : Terminate(actions[i]) = 1}

\* C3: when main has generated the pick and the place of one command, the
\* nine vectors hold exactly one terminate = 1, on the last vector of the
\* place; no vector of the pick has it.
C3_OneTerminate ==
    ml.pc = "completed" =>
        /\ Len(ml.pick_actions) = 4
        /\ Len(ml.place_actions) = 5
        /\ TerminateIndices(ml.pick_actions) = {}
        /\ TerminateIndices(ml.pick_actions \o ml.place_actions) = {9}

\* a completed transaction that placed one cube on another
C3_Witness ==
    /\ ml.pc = "completed"
    /\ ml.pick_uid = 4
    /\ ml.place_uid = 3
    /\ Terminate(ml.place_actions[5]) = 1
    /\ Terminate(ml.pick_actions[4]) = 0

(***************************************************************************)
(* RT2Simulation.handle_command (p.py): it checks that the simulation is   *)
(* started, perceives, calls decide, which runs as a call of its own, and  *)
(* drives the controller from the decision.  A failure of the engine       *)
(* inside controller.pick or controller.place_and_release leaves through   *)
(* the finally clause.                                                     *)
(***************************************************************************)
\* self.default_drop, in cm
default_drop == << 40, 0, 5 >>

\* the leaked constraints a behaviour may pile up
MaxLeaks == 1

\* a guard that only asks whether start() was ever called
StartedOnce(sim) == sim.lifecycle # "none"

\* the negation of _ensure_started's test
Started(sim) == sim.physics_client # NoUid /\ sim.robot_id # NoUid /\ sim.controller

\* the calls of handle_command: the command and the two keyword arguments
HandleCalls ==
    {[HcFrame("call", c) EXCEPT !.capture_frame = f, !.auto_reset = a] :
        c \in InputTexts, f \in BOOLEAN, a \in BOOLEAN}

InitService ==
    /\ tk = TkIdle
    /\ ex = ExIdle
    /\ gripper_open = 1
    /\ dc = DcIdle
    /\ mc = McIdle
    /\ ml = MlIdle
    /\ hc \in HandleCalls
    /\ pf = PfIdle
    /\ rt = RtStarted
    /\ cl = ClIdle
    /\ srv = SrvIdle

\* line 470: _ensure_started raises
HandleNotStarted ==
    /\ hc.pc = "call"
    /\ ~Started(rt)
    /\ hc' = [hc EXCEPT !.pc = "raised"]
    /\ rt' = [rt EXCEPT !.last = [method |-> "handle_command", outcome |-> "RuntimeError",
                                  physics |-> FALSE, matcher |-> FALSE]]
    /\ UNCHANGED << compVars, dc, mc, ml, pf, cl, srv >>

\* lines 470-480: settle, capture, visible, and the call of decide
HandlePerceive ==
    /\ hc.pc = "call"
    /\ Started(rt)
    /\ rt.connected
    /\ \E visible \in VisibleSets :
           /\ hc' = [hc EXCEPT !.pc = "deciding", !.visible = visible]
           /\ dc' = DcFrame("call", hc.command, visible)
    /\ rt' = [rt EXCEPT !.last = [method |-> "handle_command", outcome |-> "entered",
                                  physics |-> TRUE, matcher |-> TRUE]]
    /\ UNCHANGED << compVars, mc, ml, pf, cl, srv >>

\* a handler that catches the failure and returns the early result
HandleRaiseMasked ==
    /\ hc.pc = "deciding"
    /\ dc.pc = "raised"
    /\ hc' = [hc EXCEPT !.pc = "done", !.warning = "pick target unresolved"]
    /\ UNCHANGED << compVars, dc, mc, ml, sysVars >>

\* line 480: the exception leaves handle_command, which has no handler
\* around the call
HandleRaise ==
    /\ hc.pc = "deciding"
    /\ dc.pc = "raised"
    /\ hc' = [hc EXCEPT !.pc = "raised"]
    /\ UNCHANGED << compVars, dc, mc, ml, sysVars >>

\* a handler that perceives again until a pick is resolved
HandleNoPickRetries ==
    /\ hc.pc = "deciding"
    /\ dc.pc = "done"
    /\ dc.pick_uid = NoUid
    /\ hc' = [hc EXCEPT !.pc = "call"]
    /\ dc' = DcIdle
    /\ UNCHANGED << compVars, mc, ml, sysVars >>

\* an early result that goes on to the frame capture and the reset
HandleNoPickThrough ==
    /\ hc.pc = "deciding"
    /\ dc.pc = "done"
    /\ dc.pick_uid = NoUid
    /\ hc' = [hc EXCEPT !.pc = "done",
                        !.pick_uid = NoUid,
                        !.place_uid = dc.place_uid,
                        !.frame_png = hc.capture_frame,
                        !.scene_reset = hc.auto_reset,
                        !.warning = "pick target unresolved"]
    /\ UNCHANGED << compVars, dc, mc, ml, sysVars >>

\* lines 481-499: no pick, the early result
HandleNoPick ==
    /\ hc.pc = "deciding"
    /\ dc.pc = "done"
    /\ dc.pick_uid = NoUid
    /\ hc' = [hc EXCEPT !.pc = "done",
                        !.pick_uid = NoUid,
                        !.place_uid = dc.place_uid,
                        !.warning = "pick target unresolved"]
    /\ UNCHANGED << compVars, dc, mc, ml, sysVars >>

\* self.objects: every cube of the scene, visible or not
SceneUids == {Scene[k].uid : k \in 1..Len(Scene)}

\* p.createConstraint: a constraint id not in use
NewConstraint(live) == 1 + SetMax(live \cup {0})

\* lines 505-521: the drop position, from the pose of the place object
DropPosition(place_uid, base_pos) ==
    IF place_uid # NoUid /\ place_uid \in SceneUids
    THEN << base_pos[1], base_pos[2], base_pos[3] + 6 >>
    ELSE default_drop

\* lines 481-549: pick, the drop position, place_and_release, which removes
\* the constraint pick created, the frame, the result, the reset
HandleExecute ==
    /\ hc.pc = "deciding"
    /\ dc.pc = "done"
    /\ dc.pick_uid # NoUid
    /\ \E base_pos \in Poses :
           LET on_object == dc.place_uid # NoUid /\ dc.place_uid \in SceneUids
               drop_position == DropPosition(dc.place_uid, base_pos)
           IN  hc' = [hc EXCEPT !.pc = "done",
                                !.pick_uid = dc.pick_uid,
                                !.place_uid = dc.place_uid,
                                !.target_uid = IF on_object THEN dc.place_uid ELSE NoUid,
                                !.drop_position = drop_position,
                                !.frame_png = hc.capture_frame,
                                !.scene_reset = hc.auto_reset,
                                !.motions = << [op |-> "pick", uid |-> dc.pick_uid],
                                               [op |-> "place_and_release",
                                                pos |-> drop_position] >>]
    /\ UNCHANGED << compVars, dc, mc, ml, sysVars >>

\* lines 264-273: the engine fails in pick before createConstraint; the
\* finally clause finds constraint_id None
HandlePickRaisesEarly ==
    /\ hc.pc = "deciding"
    /\ dc.pc = "done"
    /\ dc.pick_uid # NoUid
    /\ hc' = [hc EXCEPT !.pc = "raised",
                        !.motions = << [op |-> "pick", uid |-> dc.pick_uid] >>]
    /\ UNCHANGED << compVars, dc, mc, ml, sysVars >>

\* lines 275-291 and 504: the engine fails in move_to(lift), after
\* createConstraint; pick returns nothing, constraint_id of handle_command is
\* still None and the finally clause removes nothing
HandlePickRaisesInLift ==
    /\ hc.pc = "deciding"
    /\ dc.pc = "done"
    /\ dc.pick_uid # NoUid
    /\ Cardinality(rt.constraints) < MaxLeaks
    /\ hc' = [hc EXCEPT !.pc = "raised",
                        !.motions = << [op |-> "pick", uid |-> dc.pick_uid] >>]
    /\ rt' = [rt EXCEPT !.constraints = rt.constraints \cup {NewConstraint(rt.constraints)}]
    /\ UNCHANGED << compVars, dc, mc, ml, pf, cl, srv >>

\* lines 298-308 and 522-528: the engine fails in place_and_release, before
\* its removeConstraint (the finally clause removes the constraint) or after
\* it (the finally clause removes it again and swallows the error)
HandlePlaceRaises ==
    /\ hc.pc = "deciding"
    /\ dc.pc = "done"
    /\ dc.pick_uid # NoUid
    /\ \E base_pos \in Poses :
           hc' = [hc EXCEPT !.pc = "raised",
                            !.motions = << [op |-> "pick", uid |-> dc.pick_uid],
                                           [op |-> "place_and_release",
                                            pos |-> DropPosition(dc.place_uid, base_pos)] >>]
    /\ UNCHANGED << compVars, dc, mc, ml, sysVars >>

\* the steps of one handle_command call on a command that keeps some text
\* once stripped
HandleStepsStripped ==
    \/ HandlePerceive
    \/ DecideNoObjects
    \/ DecideEncode
    \/ DecideEncodeRaises
    \/ DecidePick
    \/ DecidePlace
    \/ DecideReturn
    \/ HandleRaise
    \/ HandleNoPick
    \/ HandleExecute
    \/ HandlePickRaisesEarly
    \/ HandlePickRaisesInLift
    \/ HandlePlaceRaises

\* the steps of one handle_command call
HandleSteps == HandleStepsStripped \/ DecideEmptyCommand

NextService == HandleSteps

SpecService == InitService /\ [][NextService]_vars

(***************************************************************************)
(* The two matchers side by side: a behaviour is either one call of        *)
(* decide or a run of the console loop around pick_and_place_from_text.    *)
(***************************************************************************)
InitMatchers == InitDecide \/ Init

NextMatchers == NextDecide \/ Next

SpecMatchers == InitMatchers /\ [][NextMatchers]_vars
\* C11: when the lowercased command holds a ground keyword, the place
\* returned by pick_and_place_from_text is the GROUND target, whatever the
\* scores and the place phrase, and no place phrase was resolved.
C11_GroundSentinel ==
    (mc.pc = "done" /\ AnyKeywordIn(Lower(mc.text))) =>
        /\ mc.place_on_ground
        /\ mc.place_uid = GROUND
        /\ mc.place_score = NoScore

\* "pick up the red cube and place it on the ground" with the three cubes
\* visible: a place phrase was extracted, the pick was scored, the place is
\* the ground
C11_Witness ==
    /\ mc.pc = "done"
    /\ mc.text = Commands[1]
    /\ Len(mc.objects_meta) = 3
    /\ mc.place_phrase = SomeText(<< "g", "r", "o", "u", "n", "d" >>)
    /\ mc.pick_score # NoScore
    /\ mc.place_uid = GROUND

\* C12: in the service path a place phrase that holds a ground keyword makes
\* the place target the GROUND target and not an object, and the drop
\* position is not taken from an object's pose.
C12_ServiceGround ==
    (/\ hc.pc = "done"
     /\ hc.pick_uid # NoUid
     /\ dc.place_phrase.some
     /\ AnyKeywordIn(dc.place_phrase.t)) =>
        /\ hc.place_uid = GROUND
        /\ hc.target_uid = NoUid

\* the commands that are empty once stripped
EmptyCommands == {c \in InputTexts : \A i \in 1..Len(c) : c[i] = " "}

\* C13: an empty or whitespace-only command never reaches the encoder and
\* never raises; decide returns a decision with pick None and an error
\* entry, and handle_command returns a result with pick_uid None and has
\* moved nothing.
C13_EmptyCommand ==
    (hc.pc \in {"deciding", "raised", "done"} /\ hc.command \in EmptyCommands) =>
        /\ dc.pc # "raised"
        /\ hc.pc # "raised"
        /\ dc.encode_calls = 0
        /\ dc.pc = "done" => (dc.pick_uid = NoUid /\ dc.error # "")
        /\ hc.pc = "done" => (hc.pick_uid = NoUid /\ hc.motions = << >>)

\* '   ' with the three cubes visible: the early result
C13_Witness ==
    /\ hc.pc = "done"
    /\ hc.command = << " ", " ", " " >>
    /\ Len(hc.visible) = 3
    /\ dc.error = "empty command"
    /\ hc.pick_uid = NoUid
    /\ hc.warning = "pick target unresolved"

\* C14 as stated: whenever an object is visible the pick of decide is set.
C14_PickWheneverVisible ==
    (dc.pc = "done" /\ Len(dc.objects) >= 1) => dc.pick_uid # NoUid

\* C14: whenever an object is visible and the command is not empty once
\* stripped, the pick returned by decide is set.
C14_PickUnlessEmpty ==
    (dc.pc = "done" /\ Len(dc.objects) >= 1 /\ Len(Strip(dc.command)) > 0) =>
        dc.pick_uid # NoUid

\* 'hello robot' with one cube visible: no phrase, the pick comes from the
\* full-command ranking
C14_Witness ==
    /\ dc.pc = "done"
    /\ dc.command = Commands[10]
    /\ Len(dc.objects) = 1
    /\ ~dc.include_pick
    /\ dc.pick_uid = dc.objects[1].uid
    /\ Len(dc.fallback_scores) = 1

\* C15: when the lowercased command holds the name of a visible object, the
\* pick of pick_and_place_from_text is the first such object.
C15_LiteralOutranks ==
    (mc.pc = "done" /\ DirectColorMatch(mc.objects_meta, mc.txt) # NoUid) =>
        mc.pick_uid = DirectColorMatch(mc.objects_meta, mc.txt)

\* C16: with one name under two uids, the phrase-based selections of decide
\* never return the later twin, and the full-command ranking lists the
\* earlier twin before the later one.
C16_FirstOnTie ==
    \A i \in 1..Len(dc.objects) : \A j \in (i + 1)..Len(dc.objects) :
        dc.objects[i].name = dc.objects[j].name =>
            /\ (dc.pc = "place" /\ dc.include_pick) =>
                   dc.pick_uid # dc.objects[j].uid
            /\ (dc.pc = "resolve" /\ dc.include_place) =>
                   dc.place_uid # dc.objects[j].uid
            /\ dc.pc = "done" =>
                   \A k \in 1..Len(dc.fallback_scores) :
                       dc.fallback_scores[k][1] = dc.objects[j].uid =>
                           \E h \in 1..(k - 1) :
                               dc.fallback_scores[h][1] = dc.objects[i].uid

\* 'pick up the red cube' with two red cubes: the phrase picks the first,
\* the ranking holds both at one score and the second becomes the place
C16_Witness ==
    /\ dc.pc = "done"
    /\ dc.command = Commands[6]
    /\ Len(dc.objects) = 2
    /\ dc.objects[1].name = dc.objects[2].name
    /\ dc.include_pick
    /\ dc.pick_uid = dc.objects[1].uid
    /\ dc.place_uid = dc.objects[2].uid
    /\ Len(dc.fallback_scores) = 2
    /\ dc.fallback_scores[1][2] = dc.fallback_scores[2][2]

\* C17: a call of either matcher calls the encoder at most once.
C17_OneEncodeCall ==
    /\ dc.encode_calls <= 1
    /\ mc.encode_calls <= 1

\* C18: once the encoder has raised inside decide, decide returns no
\* decision, handle_command returns no result and has made no controller
\* call: the exception is all its caller gets.
C18_EncoderFailure ==
    dc.pc = "raised" =>
        /\ hc.pc \in {"deciding", "raised"}
        /\ dc.pick_uid = NoUid /\ dc.place_uid = NoUid /\ dc.error = ""
        /\ hc.pick_uid = NoUid /\ hc.place_uid = NoUid
        /\ hc.drop_position = << >>
        /\ hc.warning = ""
        /\ hc.motions = << >>

\* the exception has left handle_command, three cubes visible
C18_Witness ==
    /\ hc.pc = "raised"
    /\ dc.pc = "raised"
    /\ dc.encode_calls = 1
    /\ Len(hc.visible) = 3
    /\ hc.command = Commands[6]

\* C19: a place phrase equal to the pick phrase resolves no place.  In
\* pick_and_place_from_text the place is None, or GROUND under the ground
\* flag, and carries no score; in decide the phrase is not among the encoded
\* texts, carries no score, and the place is the second of the full-command
\* ranking (None when the ranking has one entry) unless that is the pick.
C19_SamePhraseNotReused ==
    /\ (mc.pc = "done" /\ mc.place_phrase.some /\ mc.place_phrase = mc.pick_phrase) =>
           /\ mc.place_score = NoScore
           /\ mc.place_uid = IF mc.place_on_ground THEN GROUND ELSE NoUid
    /\ (/\ dc.pc \in {"pick", "place", "resolve", "done"}
        /\ dc.place_phrase.some /\ dc.place_phrase = dc.pick_phrase) =>
           /\ ~dc.include_place
           /\ dc.place_score = NoScore
           /\ dc.pc = "done" =>
                  /\ Len(dc.fallback_scores) = Len(dc.objects)
                  /\ Len(dc.fallback_scores) = 1 => dc.place_uid = NoUid
                  /\ Len(dc.fallback_scores) > 1 =>
                         \/ dc.place_uid = dc.fallback_scores[2][1]
                         \/ /\ dc.resolved_same_object # NoScore
                            /\ dc.fallback_scores[2][1] = dc.pick_uid

\* 'pick red and put on red' with the three cubes visible: both phrases are
\* 'red', the pick was scored, the place is None
C19_Witness ==
    /\ mc.pc = "done"
    /\ mc.text = Commands[5]
    /\ Len(mc.objects_meta) = 3
    /\ mc.pick_phrase = SomeText(<< "r", "e", "d" >>)
    /\ mc.place_phrase = mc.pick_phrase
    /\ mc.pick_score # NoScore
    /\ mc.place_uid = NoUid

\* the vectors the loop holds
LoopVectors ==
    {ml.pick_actions[k] : k \in 1..Len(ml.pick_actions)}
        \cup {ml.place_actions[k] : k \in 1..Len(ml.place_actions)}

\* C20: every vector of generate_pick_actions and generate_place_actions is
\* an 8-tuple with roll, pitch and yaw 0 and with terminate and gripper in
\* {0, 1}, whatever yaw the loop gave the tokenizer.
C20_NeutralRotation ==
    \A v \in LoopVectors :
        /\ Len(v) = 8
        /\ << v[5], v[6], v[7] >> = << 0, 0, 0 >>
        /\ v[1] \in {0, 1}
        /\ v[8] \in {0, 1}

\* a completed task whose tokens carry a yaw that is not 0
C20_Witness ==
    /\ ml.pc = "completed"
    /\ Len(ml.pick_actions) = 4
    /\ Len(ml.place_actions) = 5
    /\ ml.pick_tokens[5] # "ROT_YAW_+0"
(***************************************************************************)
(* The matcher stages on their own: best_uid_for of                        *)
(* pick_and_place_from_text and the resolution stage of decide, each       *)
(* called once per behaviour on arguments drawn by the initial state.      *)
(***************************************************************************)
\* the objects_meta maps best_uid_for is called over; the engine numbers its
\* bodies from 0
BestUidMaps ==
    {<< [uid |-> 0, name |-> << "r", "e", "d" >>] >>,
     << [uid |-> 0, name |-> << "r", "e", "d" >>], [uid |-> 1, name |-> << "g", "r", "e", "e", "n" >>] >>}

BestUidPhrases == {<< "r", "e", "d" >>, << "t", "h", "a", "t" >>}

UidsOf(objects) == {objects[o].uid : o \in 1..Len(objects)}

\* the candidate texts of pick_and_place_from_text, lines 225-239
ClipCandidates(objects) ==
    Candidates(objects, [o \in 1..Len(objects) |-> ClipDescriptors(objects[o].name)])

\* the candidate texts of decide, lines 133-145
DecideCandidates(objects) ==
    Candidates(objects, [o \in 1..Len(objects) |-> DecideDescriptors(objects[o].name)])

BestUidRequests(maps) ==
    UNION {{[PfIdle EXCEPT !.op = "best_uid_for", !.objects = objects,
                           !.phrase = phrase, !.exclude_uid = u, !.hot = hot] :
                phrase \in BestUidPhrases,
                u \in UidsOf(objects) \cup {NoUid},
                hot \in ClipHots(ClipCandidates(objects))} :
            objects \in maps}

\* the visible objects the resolution stage is called over: one, two and
\* three cubes, and two cubes of one name
ResolveMaps ==
    {Select(Scene, 1..k) : k \in 1..Len(Scene)} \cup {o \in TwinScenes : Len(o) = 2}

\* the resolution stage is entered with the pick and the place of the
\* phrases, each an object or None, and the similarities of the command
ResolveRequests(maps) ==
    UNION {{[PfIdle EXCEPT !.op = "resolve", !.objects = objects,
                           !.phrase = Commands[10],
                           !.pick_uid = pick_uid, !.place_uid = place_uid, !.hot = hot] :
                pick_uid \in UidsOf(objects) \cup {NoUid},
                place_uid \in UidsOf(objects) \cup {NoUid},
                hot \in HotCells(Len(DecideCandidates(objects)))} :
            objects \in maps}

InitStages ==
    /\ tk = TkIdle
    /\ ex = ExIdle
    /\ gripper_open = 1
    /\ dc = DcIdle
    /\ mc = McIdle
    /\ ml = MlIdle
    /\ hc = HcIdle
    /\ pf \in BestUidRequests(BestUidMaps) \cup ResolveRequests(ResolveMaps)
    /\ rt = RtNone
    /\ cl = ClIdle
    /\ srv = SrvIdle

\* Simullation.py lines 243-272
BestUidCall ==
    /\ pf.op = "best_uid_for"
    /\ ~pf.done
    /\ pf' = [pf EXCEPT !.done = TRUE,
                        !.out = ClipBestUidFor(pf.objects, ClipCandidates(pf.objects),
                                               pf.phrase, pf.exclude_uid, pf.hot)]
    /\ UNCHANGED << compVars, matchVars, rt, cl, srv >>

\* p.py lines 192-216
ResolveCall ==
    /\ pf.op = "resolve"
    /\ ~pf.done
    /\ LET cands == DecideCandidates(pf.objects)
       IN  pf' = [pf EXCEPT !.done = TRUE,
                            !.out = DecideResolve(pf.objects, cands, pf.pick_uid, pf.place_uid,
                                                  ScoreVector(cands, pf.phrase, pf.hot))]
    /\ UNCHANGED << compVars, matchVars, rt, cl, srv >>

NextStages == BestUidCall \/ ResolveCall

SpecStages == InitStages /\ [][NextStages]_vars
(***************************************************************************)
(* cli_loop under main() of p.py: the simulation is started, the loop      *)
(* reads a line, hands a command to handle_command and reports, until the  *)
(* input ends; main's finally clause shuts the simulation down.            *)
(***************************************************************************)
\* the lines typed at the prompt: a command with both phrases, one with
\* none, a blank line, an exit word
CliLines == {Commands[1], Commands[10], Commands[12], << "e", "x", "i", "t" >>}

InitCli ==
    /\ tk = TkIdle
    /\ ex = ExIdle
    /\ gripper_open = 1
    /\ dc = DcIdle
    /\ mc = McIdle
    /\ ml = MlIdle
    /\ hc = HcIdle
    /\ pf = PfIdle
    /\ rt = RtStarted
    /\ cl \in {[ClFrame("prompt") EXCEPT !.auto_reset = a] : a \in BOOLEAN}
    /\ srv = SrvIdle

\* lines 566-570: EOFError or KeyboardInterrupt at the prompt
CliInputEnds ==
    /\ cl.pc = "prompt"
    /\ cl' = [cl EXCEPT !.pc = "ended", !.raw = << >>, !.printed = "Exiting..."]
    /\ UNCHANGED << compVars, matchVars, pf, rt, srv >>

\* lines 567-572: a line that is empty once stripped
CliInputEmpty ==
    /\ cl.pc = "prompt"
    /\ \E line \in CliLines :
           /\ Len(Strip(line)) = 0
           /\ cl' = [cl EXCEPT !.raw = Strip(line), !.printed = ""]
    /\ UNCHANGED << compVars, matchVars, pf, rt, srv >>

\* lines 573-575
CliInputExit ==
    /\ cl.pc = "prompt"
    /\ \E line \in CliLines :
           /\ Lower(Strip(line)) \in ExitWords
           /\ cl' = [cl EXCEPT !.pc = "ended", !.raw = Strip(line), !.printed = "Goodbye!"]
    /\ UNCHANGED << compVars, matchVars, pf, rt, srv >>

\* lines 567-577: the call of handle_command
CliInputCommand ==
    /\ cl.pc = "prompt"
    /\ \E line \in CliLines :
           /\ Len(Strip(line)) > 0
           /\ Lower(Strip(line)) \notin ExitWords
           /\ cl' = [cl EXCEPT !.pc = "handling", !.raw = Strip(line), !.printed = ""]
           /\ hc' = [HcFrame("call", Strip(line)) EXCEPT !.auto_reset = cl.auto_reset]
    /\ UNCHANGED << compVars, dc, mc, ml, pf, rt, srv >>

\* lines 576-587: the exception is logged, or the result is printed; the
\* loop goes back to the prompt
CliReport ==
    /\ cl.pc = "handling"
    /\ hc.pc \in {"done", "raised"}
    /\ cl' = [cl EXCEPT !.pc = "prompt",
                        !.printed = IF hc.pc = "raised" THEN "[error]"
                                    ELSE IF hc.pick_uid = NoUid THEN "[warn]"
                                    ELSE "[ok]"]
    /\ hc' = HcIdle
    /\ dc' = DcIdle
    /\ UNCHANGED << compVars, mc, ml, pf, rt, srv >>

\* lines 551-559: shutdown
AfterShutdown(sim) ==
    [sim EXCEPT !.physics_client = NoUid, !.robot_id = NoUid, !.controller = FALSE,
                !.connected = IF sim.physics_client # NoUid THEN FALSE ELSE sim.connected,
                !.constraints = IF sim.physics_client # NoUid THEN {} ELSE sim.constraints,
                !.lifecycle = "shutdown",
                !.last = NoCall]

\* lines 618-622: main's finally clause
CliShutdown ==
    /\ cl.pc = "ended"
    /\ cl' = [cl EXCEPT !.pc = "exited"]
    /\ rt' = AfterShutdown(rt)
    /\ UNCHANGED << compVars, matchVars, pf, srv >>

\* what the interpreter does without waiting for anybody, the encode call
\* and the resolution of decide apart
CliRuns ==
    \/ HandlePerceive
    \/ DecideNoObjects
    \/ DecideEncodeRaises
    \/ DecidePick
    \/ DecidePlace
    \/ HandleRaise
    \/ HandleNoPick
    \/ HandleExecute
    \/ HandlePickRaisesEarly
    \/ HandlePickRaisesInLift
    \/ HandlePlaceRaises
    \/ CliReport
    \/ CliShutdown

NextCli ==
    \/ CliInputEnds
    \/ CliInputEmpty
    \/ CliInputExit
    \/ CliInputCommand
    \/ DecideEncode
    \/ DecideReturn
    \/ CliRuns

\* the guard of DecideEncode, whose step always moves dc.pc
DecideEncodeReady ==
    /\ dc.pc = "call"
    /\ Len(dc.objects) > 0
    /\ Len(Strip(dc.command)) > 0

\* weak fairness of DecideEncode, its enabling condition spelt out
DecideEncodeFair == ([]<>(~DecideEncodeReady)) \/ ([]<><<DecideEncode>>_vars)

\* weak fairness of DecideReturn, which has a step from every state of the
\* resolution stage
DecideReturnFair == ([]<>(dc.pc # "resolve")) \/ ([]<><<DecideReturn>>_vars)

\* the loop's one thread runs on as long as it has a step to take, each call
\* of the encoder and of the engine returning or raising
SpecCli == InitCli /\ [][NextCli]_vars /\ WF_vars(CliRuns) /\ DecideEncodeFair /\ DecideReturnFair

(***************************************************************************)
(* RT2Simulation driven by one caller: start() and shutdown() in any       *)
(* order, and between them the four guarded methods.  rt.last records the  *)
(* guarded call made most recently since the last lifecycle call.          *)
(***************************************************************************)
SimCommands == {Commands[1]}

\* handle_command(command)
SimCalls == {HcFrame("call", c) : c \in SimCommands}

InitSim ==
    /\ tk = TkIdle
    /\ ex = ExIdle
    /\ gripper_open = 1
    /\ dc = DcIdle
    /\ mc = McIdle
    /\ ml = MlIdle
    /\ hc = HcIdle
    /\ pf = PfIdle
    /\ rt = RtNone
    /\ cl = ClIdle
    /\ srv = SrvIdle

\* lines 330-348
SimStart ==
    /\ hc.pc = "idle"
    /\ rt' = RtStarted
    /\ UNCHANGED << compVars, matchVars, pf, cl, srv >>

\* lines 331-334: the old connection is closed and p.connect raises
SimStartFailsConnect ==
    /\ hc.pc = "idle"
    /\ rt' = [rt EXCEPT !.connected = FALSE, !.constraints = {},
                        !.lifecycle = "start_failed", !.last = NoCall]
    /\ UNCHANGED << compVars, matchVars, pf, cl, srv >>

\* lines 334-339, 350-360: the connection is made and a loadURDF raises,
\* before or after robot_id is assigned; controller is not assigned
SimStartFailsLoad ==
    /\ hc.pc = "idle"
    /\ \E robot_loaded \in BOOLEAN :
           rt' = [rt EXCEPT !.physics_client = 0,
                            !.robot_id = IF robot_loaded THEN 1 ELSE rt.robot_id,
                            !.connected = TRUE, !.constraints = {},
                            !.lifecycle = "start_failed", !.last = NoCall]
    /\ UNCHANGED << compVars, matchVars, pf, cl, srv >>

\* lines 551-559
SimShutdown ==
    /\ hc.pc = "idle"
    /\ rt' = AfterShutdown(rt)
    /\ UNCHANGED << compVars, matchVars, pf, cl, srv >>

\* the caller enters handle_command
SimHandleCommand ==
    /\ hc.pc = "idle"
    /\ hc' \in SimCalls
    /\ UNCHANGED << compVars, dc, mc, ml, sysVars >>

\* lines 470-471: the guard passes and settle steps an engine that is no
\* longer connected
HandleEngineDown ==
    /\ hc.pc = "call"
    /\ Started(rt)
    /\ ~rt.connected
    /\ hc' = [hc EXCEPT !.pc = "raised"]
    /\ rt' = [rt EXCEPT !.last = [method |-> "handle_command", outcome |-> "pybullet.error",
                                  physics |-> TRUE, matcher |-> FALSE]]
    /\ UNCHANGED << compVars, dc, mc, ml, pf, cl, srv >>

\* handle_command is left, by its result or by its exception
SimReturn ==
    /\ hc.pc \in {"done", "raised"}
    /\ hc' = HcIdle
    /\ dc' = DcIdle
    /\ UNCHANGED << compVars, mc, ml, sysVars >>

\* a guarded method that steps or queries the engine and never the matcher
GuardedCall(sim, method) ==
    [sim EXCEPT !.last =
        IF ~Started(sim)
        THEN [method |-> method, outcome |-> "RuntimeError",
              physics |-> FALSE, matcher |-> FALSE]
        ELSE [method |-> method,
              outcome |-> IF sim.connected THEN "returned" ELSE "pybullet.error",
              physics |-> TRUE, matcher |-> FALSE]]

\* lines 401-410
SimResetScene ==
    /\ hc.pc = "idle"
    /\ rt' = GuardedCall(rt, "reset_scene")
    /\ UNCHANGED << compVars, matchVars, pf, cl, srv >>

\* lines 412-440
SimCaptureFrame ==
    /\ hc.pc = "idle"
    /\ rt' = GuardedCall(rt, "capture_frame")
    /\ UNCHANGED << compVars, matchVars, pf, cl, srv >>

\* lines 448-461
SimGetStateSnapshot ==
    /\ hc.pc = "idle"
    /\ rt' = GuardedCall(rt, "get_state_snapshot")
    /\ UNCHANGED << compVars, matchVars, pf, cl, srv >>

NextSim ==
    \/ SimStart
    \/ SimStartFailsConnect
    \/ SimStartFailsLoad
    \/ SimShutdown
    \/ SimHandleCommand
    \/ HandleNotStarted
    \/ HandleEngineDown
    \/ HandleStepsStripped
    \/ SimReturn
    \/ SimResetScene
    \/ SimCaptureFrame
    \/ SimGetStateSnapshot

SpecSim == InitSim /\ [][NextSim]_vars
(***************************************************************************)
(* server.py: the Flask application run with threaded=True.  Each request  *)
(* is served by a thread of its own; the threads share the global sim and  *)
(* take no lock.  srv.sim is the global (0 for None, otherwise the index   *)
(* of an instance in srv.instances); a thread's simulation is the local    *)
(* variable of its endpoint.                                               *)
(***************************************************************************)
Endpoints == {"health", "simulate", "reset", "state"}

\* the bodies of a POST /api/simulate: no command, a blank one, a command
SimulateBodies == {"missing", "blank", "command"}

\* RT2Simulation(gui=False): not started, no command running in it
NewInstance == [started |-> FALSE, connected |-> FALSE, active |-> 0]

InitServer ==
    /\ tk = TkIdle
    /\ ex = ExIdle
    /\ gripper_open = 1
    /\ dc = DcIdle
    /\ mc = McIdle
    /\ ml = MlIdle
    /\ hc = HcIdle
    /\ pf = PfIdle
    /\ rt = RtNone
    /\ cl = ClIdle
    /\ srv = SrvIdle

SetThread(t, th) == [srv EXCEPT !.threads[t] = th]

\* the status of the except clause of an endpoint
FailureStatus(endpoint) == IF endpoint = "health" THEN 503 ELSE 500

\* a request arrives and werkzeug hands it to a thread; lines 83-95 answer a
\* body without a command at once
SrvRequest(t) ==
    /\ ~srv.stopped
    /\ srv.threads[t].pc = "idle"
    /\ \E e \in Endpoints, body \in SimulateBodies :
           /\ e # "simulate" => body = "command"
           /\ srv' = SetThread(t,
                  IF body = "command"
                  THEN [pc |-> "ensure", endpoint |-> e, simulation |-> 0, status |-> 0]
                  ELSE [pc |-> "respond", endpoint |-> e, simulation |-> 0, status |-> 400])
    /\ UNCHANGED << compVars, matchVars, pf, rt, cl >>

\* line 60: if sim is None
EnsureCheck(t) ==
    /\ srv.threads[t].pc = "ensure"
    /\ srv' = SetThread(t, [srv.threads[t] EXCEPT
                               !.pc = IF srv.sim = 0 THEN "construct" ELSE "return"])
    /\ UNCHANGED << compVars, matchVars, pf, rt, cl >>

\* line 62: sim = RT2Simulation(gui=False)
EnsureConstruct(t) ==
    /\ srv.threads[t].pc = "construct"
    /\ srv' = [srv EXCEPT !.instances = Append(srv.instances, NewInstance),
                          !.sim = Len(srv.instances) + 1,
                          !.threads[t].pc = "start"]
    /\ UNCHANGED << compVars, matchVars, pf, rt, cl >>

\* start() of instance i: p.isConnected() and p.disconnect() close the
\* connection another instance may hold (p.py lines 331-334)
StartInstance(instances, i) ==
    [j \in DOMAIN instances |->
        IF j = i THEN [instances[j] EXCEPT !.started = TRUE, !.connected = TRUE]
        ELSE [instances[j] EXCEPT !.connected = FALSE]]

\* line 63: sim.start() on whatever the global names by now
EnsureStart(t) ==
    /\ srv.threads[t].pc = "start"
    /\ srv' = [srv EXCEPT !.instances = StartInstance(srv.instances, srv.sim),
                          !.threads[t].pc = "return"]
    /\ UNCHANGED << compVars, matchVars, pf, rt, cl >>

\* line 63: sim.start() raises; the global keeps the instance
EnsureStartRaises(t) ==
    /\ srv.threads[t].pc = "start"
    /\ srv' = SetThread(t, [srv.threads[t] EXCEPT
                               !.pc = "respond",
                               !.status = FailureStatus(srv.threads[t].endpoint)])
    /\ UNCHANGED << compVars, matchVars, pf, rt, cl >>

\* line 65: return sim; health_check answers at once (lines 72-73)
EnsureReturn(t) ==
    /\ srv.threads[t].pc = "return"
    /\ srv' = SetThread(t,
           IF srv.threads[t].endpoint = "health"
           THEN [srv.threads[t] EXCEPT !.pc = "respond", !.status = 200]
           ELSE [srv.threads[t] EXCEPT !.pc = "use", !.simulation = srv.sim])
    /\ UNCHANGED << compVars, matchVars, pf, rt, cl >>

\* what _ensure_started lets through and the engine can serve
Usable(instance) == instance.started /\ instance.connected

\* lines 139-142, 163-164: reset_scene or get_state_snapshot
SrvGuardedCall(t) ==
    /\ srv.threads[t].pc = "use"
    /\ srv.threads[t].endpoint \in {"reset", "state"}
    /\ srv' = SetThread(t, [srv.threads[t] EXCEPT
                               !.pc = "respond",
                               !.status = IF Usable(srv.instances[srv.threads[t].simulation])
                                          THEN 200 ELSE 500])
    /\ UNCHANGED << compVars, matchVars, pf, rt, cl >>

\* line 103: handle_command is entered
SrvHandleEnter(t) ==
    /\ srv.threads[t].pc = "use"
    /\ srv.threads[t].endpoint = "simulate"
    /\ LET i == srv.threads[t].simulation
       IN  srv' = IF Usable(srv.instances[i])
                  THEN [srv EXCEPT !.instances[i].active = @ + 1,
                                   !.threads[t].pc = "handling"]
                  ELSE [srv EXCEPT !.threads[t].pc = "respond",
                                   !.threads[t].status = 500]
    /\ UNCHANGED << compVars, matchVars, pf, rt, cl >>

\* lines 103-129: handle_command returns its result, or raises
SrvHandleExit(t) ==
    /\ srv.threads[t].pc = "handling"
    /\ \E status \in {200, 500} :
           srv' = [srv EXCEPT !.instances[srv.threads[t].simulation].active = @ - 1,
                              !.threads[t].pc = "respond",
                              !.threads[t].status = status]
    /\ UNCHANGED << compVars, matchVars, pf, rt, cl >>

\* the response is sent and the thread is free again
SrvRespond(t) ==
    /\ srv.threads[t].pc = "respond"
    /\ srv' = SetThread(t, ThIdle)
    /\ UNCHANGED << compVars, matchVars, pf, rt, cl >>

\* lines 197-203, at exit, no request being served
ShutdownSimulation ==
    /\ ~srv.stopped
    /\ \A t \in 1..NumThreads : srv.threads[t].pc = "idle"
    /\ srv' = [srv EXCEPT
                  !.stopped = TRUE,
                  !.sim = 0,
                  !.instances = [j \in DOMAIN srv.instances |->
                                    IF j = srv.sim
                                    THEN [srv.instances[j] EXCEPT !.started = FALSE,
                                                                  !.connected = FALSE]
                                    ELSE srv.instances[j]]]
    /\ UNCHANGED << compVars, matchVars, pf, rt, cl >>

NextServer ==
    \/ \E t \in 1..NumThreads :
           \/ SrvRequest(t)
           \/ EnsureCheck(t)
           \/ EnsureConstruct(t)
           \/ EnsureStart(t)
           \/ EnsureStartRaises(t)
           \/ EnsureReturn(t)
           \/ SrvGuardedCall(t)
           \/ SrvHandleEnter(t)
           \/ SrvHandleExit(t)
           \/ SrvRespond(t)
    \/ ShutdownSimulation

SpecServer == InitServer /\ [][NextServer]_vars

\* C27: when handle_command has exited, by a return or by an exception of
\* controller.pick or controller.place_and_release, no constraint created
\* during the command is left in the engine.
C27_NoConstraintOutlives ==
    hc.pc \in {"done", "raised"} => rt.constraints = {}

\* C29: when decide returns no pick, handle_command makes no controller call
\* and creates no constraint; its result has pick_uid None, drop_position
\* None and frame_png None, carries the warning 'pick target unresolved',
\* and the scene is not reset, whatever auto_reset and capture_frame are.
C29_NoPickNoMotion ==
    (hc.pc = "done" /\ dc.pc = "done" /\ dc.pick_uid = NoUid) =>
        /\ hc.pick_uid = NoUid
        /\ hc.drop_position = << >>
        /\ ~hc.frame_png
        /\ ~hc.scene_reset
        /\ hc.motions = << >>
        /\ rt.constraints = {}
        /\ hc.warning = "pick target unresolved"

\* 'pick up the red cube' with no cube visible, auto_reset and capture_frame
\* both true: the early result
C29_Witness ==
    /\ hc.pc = "done"
    /\ hc.command = Commands[6]
    /\ hc.auto_reset /\ hc.capture_frame
    /\ hc.visible = << >>
    /\ dc.error = "no visible objects"
    /\ hc.pick_uid = NoUid
    /\ hc.warning = "pick target unresolved"

\* C23: best_uid_for called with an object id as exclude_uid, the id 0
\* included, never returns that id, and returns None when it is the only
\* object.
C23_ExcludeNeverReturned ==
    (pf.op = "best_uid_for" /\ pf.done /\ pf.exclude_uid # NoUid) =>
        /\ pf.out[1] # pf.exclude_uid
        /\ UidsOf(pf.objects) = {pf.exclude_uid} => pf.out[1] = NoUid

\* the full-command similarity of candidate c in a resolution call
FullScore(cands, c) == TextScore(cands, pf.phrase, pf.hot, cands[c].text)

\* the score of an object: the maximum over its descriptors
ObjectScore(o) ==
    LET cands == DecideCandidates(pf.objects)
    IN  SetMax({FullScore(cands, c) :
                    c \in {x \in 1..Len(cands) : cands[x].uid = pf.objects[o].uid}})

\* the place of an object in the ranking: higher scores first, the earlier
\* object first among equals
RankOf(o) ==
    1 + Cardinality({j \in 1..Len(pf.objects) :
                        \/ ObjectScore(j) > ObjectScore(o)
                        \/ ObjectScore(j) = ObjectScore(o) /\ j < o})

Ranked(k) ==
    IF k > Len(pf.objects) THEN NoUid
    ELSE pf.objects[CHOOSE o \in 1..Len(pf.objects) : RankOf(o) = k].uid

\* what the phrases and the fallback give before the collision branch
StagePick == IF pf.pick_uid # NoUid THEN pf.pick_uid ELSE Ranked(1)

StagePlace == IF pf.place_uid # NoUid THEN pf.place_uid ELSE Ranked(2)

\* C24: when the phrases and the fallback give one object for both roles and
\* more than one object is visible, decide returns that pick, and as place
\* the object of the best-scored candidate of another object, the earlier
\* candidate among equals.
C24_CollisionResolved ==
    (/\ pf.op = "resolve" /\ pf.done
     /\ Len(pf.objects) > 1
     /\ StagePick = StagePlace) =>
        LET cands == DecideCandidates(pf.objects)
            others == {c \in 1..Len(cands) : cands[c].uid # StagePick}
            top == {c \in others : \A x \in others : FullScore(cands, c) >= FullScore(cands, x)}
        IN  /\ pf.out.pick_uid = StagePick
            /\ pf.out.place_uid # StagePick
            /\ \E c \in top : /\ \A x \in top : c <= x
                              /\ pf.out.place_uid = cands[c].uid
                              /\ pf.out.resolved_same_object = FullScore(cands, c)

\* both phrases gave the red cube, three cubes visible, the blue cube scores
\* above the green one: blue is the place
C24_Witness ==
    /\ pf.op = "resolve" /\ pf.done
    /\ pf.objects = Scene
    /\ pf.pick_uid = 2 /\ pf.place_uid = 2
    /\ pf.out.pick_uid = 2 /\ pf.out.place_uid = 4
    /\ pf.out.resolved_same_object > 0

\* C25: with no pick and no place from the phrases, decide returns the
\* best-ranked object as pick and the second as place; with one object
\* visible the pick is that object and the place is None.
C25_FallbackChain ==
    (pf.op = "resolve" /\ pf.done /\ pf.pick_uid = NoUid /\ pf.place_uid = NoUid) =>
        /\ pf.out.pick_uid = Ranked(1)
        /\ pf.out.place_uid = Ranked(2)
        /\ Len(pf.objects) = 1 =>
               (pf.out.pick_uid = pf.objects[1].uid /\ pf.out.place_uid = NoUid)
        /\ Len(pf.objects) >= 2 =>
               (pf.out.place_uid # NoUid /\ pf.out.place_uid # pf.out.pick_uid)

\* three cubes, a descriptor of the blue cube scores highest and one of the
\* green cube next: pick blue, place green
C25_Witness ==
    /\ pf.op = "resolve" /\ pf.done
    /\ pf.objects = Scene
    /\ pf.pick_uid = NoUid /\ pf.place_uid = NoUid
    /\ Len(pf.hot) = 2
    /\ pf.out.pick_uid = 4 /\ pf.out.place_uid = 3
    /\ ObjectScore(3) > ObjectScore(2) /\ ObjectScore(2) > ObjectScore(1)

\* the pooled score of an object in a best_uid_for call: the maximum over the
\* phrase variations and over the object's descriptors
Pooled(o) ==
    LET cands == ClipCandidates(pf.objects)
        variations == phrase_variations(pf.phrase)
    IN  SetMax({PairScore(variations, cands, pf.hot, vc[1], vc[2]) :
                    vc \in (1..Len(variations))
                             \X {c \in 1..Len(cands) : cands[c].uid = pf.objects[o].uid}})

C22_NoCommandBlocks ==
    /\ (hc.pc = "call") ~> (hc.pc \in {"done", "raised"})
    /\ (cl.pc = "handling") ~> (cl.pc = "prompt")

\* the loop is back at the prompt after a command that raised in the lift
C22_Witness ==
    /\ cl.pc = "prompt"
    /\ cl.printed = "[error]"
    /\ Len(cl.raw) > 0
    /\ rt.constraints # {}

\* C28: while the simulation is not started (never started, or shutdown()
\* was the most recent lifecycle call) physics_client, robot_id and
\* controller are all None, a handle_command call gets no further than its
\* guard, and the guarded call made most recently raised RuntimeError
\* without touching the physics engine or the matcher
C28_LifecycleGuard ==
    rt.lifecycle \in {"none", "shutdown"} =>
        /\ rt.physics_client = NoUid
        /\ rt.robot_id = NoUid
        /\ ~rt.controller
        /\ hc.pc \in {"idle", "call", "raised"}
        /\ dc = DcIdle
        /\ rt.last.method # "none" =>
               /\ rt.last.outcome = "RuntimeError"
               /\ ~rt.last.physics
               /\ ~rt.last.matcher

\* handle_command has raised RuntimeError on a simulation that was started
\* and then shut down
C28_Witness ==
    /\ rt.lifecycle = "shutdown"
    /\ hc.pc = "raised"
    /\ rt.last.method = "handle_command"
    /\ rt.last.outcome = "RuntimeError"

\* C21: at most one execution of handle_command is active on a simulation
\* at a time, whatever the interleaving of the POST /api/simulate requests
C21_OneCommandAtATime ==
    \A i \in DOMAIN srv.instances : srv.instances[i].active <= 1

\* C30: ensure_simulation constructs at most one RT2Simulation, and every
\* request uses that one instance
C30_SingleInstance ==
    /\ Len(srv.instances) <= 1
    /\ \A t \in 1..NumThreads : srv.threads[t].simulation \in {0, 1}

=============================================================================
